---- MODULE Spec2Model ----
(***************************************************************************)
(* sorel_connect: the metadata retrieval state machine (MetaClient) and    *)
(* the register aggregation / decode engine (Coordinator), as state        *)
(* machines over the cooperative (asyncio) tasks of the integration.       *)
(* One action is one synchronous stretch of a coroutine, from one await    *)
(* that really suspends to the next.                                       *)
(***************************************************************************)
EXTENDS Integers, Sequences, FiniteSets, TLC

VARIABLES
    now,            \* time.time(), in seconds
    ticks,          \* how many times the clock has advanced
    last_poll,      \* MetaClient._last_poll:    key -> timestamp
    last_failed,    \* MetaClient._last_failed:  key -> timestamp
    failed_count,   \* MetaClient._failed_count: key -> int, -1 = permanent
    retry_tasks,    \* MetaClient._retry_tasks:  key -> task
    tasks,          \* the asyncio tasks running _schedule_retry, by creation
    cache,          \* the files of the cache directory: key -> content
    calls,          \* the get_metadata coroutines: id -> frame
    closing,        \* the close() coroutine
    not_found_seen, \* history: keys whose get_metadata fetch got "Device not found"
                    \* since the cache was last cleared
    known_devices,  \* Coordinator._known_devices:  set of device keys
    registers,      \* Coordinator._registers:      device -> address -> (value, timestamp)
    datapoints,     \* Coordinator._datapoints:     device -> list of datapoints
    dp_value_cache, \* Coordinator._dp_value_cache: device -> start address -> decoded value
    events,         \* the dispatcher signals sent so far, in the order sent
    handlers,       \* the handle_message coroutines, in the order the messages arrived
    received,       \* the dispatcher signals a connected callback was called with
    setup,          \* how far async_setup_entry of the integration has run
    callbacks,      \* the signals the sensor platform has connected a callback to
    dp_name,        \* a datapoint name of the metadata, as a sequence of characters
    sensor_number,  \* what parse_sensor_name(dp_name) returned
    base_sensor_name \* what is_sensor_type_register(dp_name) returned

metaVars == <<now, ticks, last_poll, last_failed, failed_count, retry_tasks,
              tasks, cache, calls, closing, not_found_seen>>

coordVars == <<known_devices, registers, datapoints, dp_value_cache, events, handlers,
               received>>

setupVars == <<setup, callbacks>>

nameVars == <<dp_name, sensor_number, base_sensor_name>>

vars == <<metaVars, coordVars, setupVars, nameVars>>

(***************************************************************************)
(* Bounds of the model.                                                    *)
(***************************************************************************)
MaxTicks == 2          \* clock advances while only get_metadata runs
RetryMaxTicks == 1     \* clock advances while retry tasks run
MaxTasks == 3          \* retry tasks ever created
MaxFailedCount == 2    \* failures the environment inflicts on one key
NumCallers == 2        \* get_metadata coroutines that can be in flight

Keys == {"k1"}
Callers == 1..NumCallers
TimeSteps == {301}
FileContents == {"none", "doc", "notfound", "corrupt"}

(***************************************************************************)
(* Program constants.                                                      *)
(***************************************************************************)
StartTime == 100000
PollWindow == 60
retry_intervals == <<300, 600, 1800, 3600>>

(***************************************************************************)
(* Python dictionaries and list indexing.                                  *)
(***************************************************************************)
Get(d, k, default) == IF k \in DOMAIN d THEN d[k] ELSE default
Put(d, k, v) == [x \in (DOMAIN d) \cup {k} |-> IF x = k THEN v ELSE d[x]]
Del(d, k) == [x \in (DOMAIN d) \ {k} |-> d[x]]
EmptyDict == [x \in {} |-> 0]

Min(a, b) == IF a < b THEN a ELSE b
Max(a, b) == IF a > b THEN a ELSE b

\* seq[i] of a Python list: 0-based, a negative index counts from the end
PyIndex(seq, i) == IF i >= 0 THEN seq[i + 1] ELSE seq[Len(seq) + i + 1]

(***************************************************************************)
(* The retry bookkeeping as one value, so that a helper called in the      *)
(* middle of a coroutine step is a function from bookkeeping to            *)
(* bookkeeping.                                                            *)
(***************************************************************************)
Book == [lf |-> last_failed, fc |-> failed_count, rt |-> retry_tasks, ts |-> tasks]

Commit(m) ==
    /\ last_failed' = m.lf
    /\ failed_count' = m.fc
    /\ retry_tasks' = m.rt
    /\ tasks' = m.ts

NewTask(k) == [key |-> k, pc |-> "new", must_cancel |-> FALSE, wake_at |-> 0]

\* Task.cancel(): no effect on a finished task; otherwise CancelledError is
\* thrown into the coroutine at its next step.
Cancel(ts, t) ==
    IF ts[t].pc = "done" THEN ts ELSE [ts EXCEPT ![t].must_cancel = TRUE]

\* _can_poll
can_poll(k) == (now - Get(last_poll, k, 0)) > PollWindow

\* _can_retry: the interval looked up for a failure count
can_retry_interval(fcv) ==
    PyIndex(retry_intervals, Min(fcv, Len(retry_intervals) - 1))

\* _can_retry
can_retry(k) ==
    IF Get(failed_count, k, 0) = -1 THEN FALSE
    ELSE IF Get(last_failed, k, 0) = 0 THEN TRUE
    ELSE (now - Get(last_failed, k, 0)) > can_retry_interval(Get(failed_count, k, 0))

\* _record_failure
record_failure(m, k) ==
    LET m1 == [m EXCEPT !.lf = Put(m.lf, k, now),
                        !.fc = Put(m.fc, k, Get(m.fc, k, 0) + 1)]
    IN  IF k \notin DOMAIN m1.rt
        THEN [m1 EXCEPT !.ts = Append(m1.ts, NewTask(k)),
                        !.rt = Put(m1.rt, k, Len(m1.ts) + 1)]
        ELSE m1

\* _record_success
record_success(m, k) ==
    [m EXCEPT !.fc = Del(m.fc, k),
              !.lf = Del(m.lf, k),
              !.ts = IF k \in DOMAIN m.rt THEN Cancel(m.ts, m.rt[k]) ELSE m.ts,
              !.rt = Del(m.rt, k)]

\* _record_permanent_failure
record_permanent_failure(m, k) ==
    [m EXCEPT !.fc = Put(m.fc, k, -1),
              !.lf = Put(m.lf, k, now),
              !.ts = IF k \in DOMAIN m.rt THEN Cancel(m.ts, m.rt[k]) ELSE m.ts,
              !.rt = Del(m.rt, k)]

\* _fetch_metadata_direct, the except branch: the failure is recorded
\* without starting a retry task
fetch_failed(m, k) ==
    [m EXCEPT !.lf = Put(m.lf, k, now),
              !.fc = Put(m.fc, k, Get(m.fc, k, 0) + 1)]


(***************************************************************************)
(* get_metadata.  A frame is [key, pc, net, result]: pc is the await the   *)
(* coroutine is suspended at, net the outcome of its network fetch,        *)
(* result what it returned.                                                *)
(***************************************************************************)
IdleCall == [key |-> "", pc |-> "idle", net |-> "none", result |-> "none"]

Frame(k, pc, net) == [key |-> k, pc |-> pc, net |-> net, result |-> "none"]

Returned(k, net, result) == [key |-> k, pc |-> "done", net |-> net, result |-> result]

\* step 2 and the first half of step 3: the poll/retry gate, then the
\* poll time is recorded and the request is sent
Gate(c, k) ==
    IF ~can_poll(k) /\ ~can_retry(k)
    THEN /\ calls' = [calls EXCEPT ![c] = Returned(k, "none", "unavailable")]
         /\ UNCHANGED last_poll
    ELSE /\ last_poll' = Put(last_poll, k, now)
         /\ calls' = [calls EXCEPT ![c] = Frame(k, "net", "none")]

\* step 4: the old cache file, if there is one
Fallback(c, k, net, files) ==
    IF files[k] # "none"
    THEN calls' = [calls EXCEPT ![c] = Frame(k, "read_fallback", net)]
    ELSE calls' = [calls EXCEPT ![c] = Returned(k, net, "unavailable")]

\* get_metadata up to its first await
GetMetadataEnter(c, k) ==
    /\ calls[c].pc \in {"idle", "done"}
    /\ IF Get(failed_count, k, 0) = -1
       THEN /\ calls' = [calls EXCEPT ![c] = Returned(k, "none", "unavailable")]
            /\ UNCHANGED last_poll
       ELSE IF cache[k] # "none"
       THEN /\ calls' = [calls EXCEPT ![c] = Frame(k, "read_cache", "none")]
            /\ UNCHANGED last_poll
       ELSE Gate(c, k)
    /\ UNCHANGED <<now, ticks, last_failed, failed_count, retry_tasks, tasks,
                   cache, closing, not_found_seen>>

\* step 1 with an unreadable cache file recorded as a failed fetch
ReadCacheDone_corrupt_is_failure(c) ==
    LET k == calls[c].key IN
    /\ calls[c].pc = "read_cache"
    /\ CASE cache[k] = "doc" ->
              /\ calls' = [calls EXCEPT ![c] = Returned(k, "none", "doc")]
              /\ UNCHANGED <<last_poll, last_failed, failed_count, retry_tasks, tasks>>
         [] cache[k] = "notfound" ->
              /\ Commit(record_permanent_failure(Book, k))
              /\ calls' = [calls EXCEPT ![c] = Returned(k, "none", "unavailable")]
              /\ UNCHANGED last_poll
         [] OTHER ->
              /\ Commit(fetch_failed(Book, k))
              /\ calls' = [calls EXCEPT ![c] = Returned(k, "none", "unavailable")]
              /\ UNCHANGED last_poll
    /\ UNCHANGED <<now, ticks, cache, closing, not_found_seen>>

\* step 1 with a document read from the cache file recorded as a success
ReadCacheDone_recording_success(c) ==
    LET k == calls[c].key IN
    /\ calls[c].pc = "read_cache"
    /\ CASE cache[k] = "doc" ->
              /\ Commit(record_success(Book, k))
              /\ calls' = [calls EXCEPT ![c] = Returned(k, "none", "doc")]
              /\ UNCHANGED last_poll
         [] cache[k] = "notfound" ->
              /\ Commit(record_permanent_failure(Book, k))
              /\ calls' = [calls EXCEPT ![c] = Returned(k, "none", "unavailable")]
              /\ UNCHANGED last_poll
         [] OTHER ->
              /\ Gate(c, k)
              /\ UNCHANGED <<last_failed, failed_count, retry_tasks, tasks>>
    /\ UNCHANGED <<now, ticks, cache, closing, not_found_seen>>

\* step 1: the cache file has been read
ReadCacheDone(c) ==
    LET k == calls[c].key IN
    /\ calls[c].pc = "read_cache"
    /\ CASE cache[k] = "doc" ->
              /\ calls' = [calls EXCEPT ![c] = Returned(k, "none", "doc")]
              /\ UNCHANGED <<last_poll, last_failed, failed_count, retry_tasks, tasks>>
         [] cache[k] = "notfound" ->
              /\ Commit(record_permanent_failure(Book, k))
              /\ calls' = [calls EXCEPT ![c] = Returned(k, "none", "unavailable")]
              /\ UNCHANGED last_poll
         [] OTHER ->
              /\ Gate(c, k)
              /\ UNCHANGED <<last_failed, failed_count, retry_tasks, tasks>>
    /\ UNCHANGED <<now, ticks, cache, closing, not_found_seen>>

\* _fetch_metadata_direct called by get_metadata: the response arrives.
\* A document is then written to the cache file, which open(.., "w")
\* truncates first.
NetRespond(c, outcome) ==
    LET k == calls[c].key IN
    /\ calls[c].pc = "net"
    /\ CASE outcome = "notfound" ->
              /\ Commit(record_permanent_failure(Book, k))
              /\ Fallback(c, k, "notfound", cache)
              /\ not_found_seen' = not_found_seen \cup {k}
              /\ UNCHANGED cache
         [] outcome = "error" ->
              /\ Get(failed_count, k, 0) < MaxFailedCount
              /\ Commit(fetch_failed(Book, k))
              /\ Fallback(c, k, "error", cache)
              /\ UNCHANGED <<cache, not_found_seen>>
         [] outcome = "ok" ->
              /\ cache' = [cache EXCEPT ![k] = "corrupt"]
              /\ calls' = [calls EXCEPT ![c] = Frame(k, "write", "ok")]
              /\ UNCHANGED <<last_failed, failed_count, retry_tasks, tasks, not_found_seen>>
    /\ UNCHANGED <<now, ticks, last_poll, closing>>

\* how the write of the cache file ends: the document is in the file; the
\* document went into a file that clear_metadata_cache had removed while it
\* was open; the write raised
WriteResults == {"written", "unlinked", "failed"}

\* the write of the cache file with a write that raised left unrecorded
WriteDone_failure_unrecorded(c, written) ==
    LET k == calls[c].key IN
    /\ calls[c].pc = "write"
    /\ CASE written = "written" ->
              /\ cache' = [cache EXCEPT ![k] = "doc"]
              /\ Commit(record_success(Book, k))
              /\ calls' = [calls EXCEPT ![c] = Frame(k, "read_fresh", "ok")]
         [] written = "unlinked" ->
              /\ cache[k] = "none"
              /\ UNCHANGED cache
              /\ Commit(record_success(Book, k))
              /\ calls' = [calls EXCEPT ![c] = Frame(k, "read_fresh", "ok")]
         [] written = "failed" ->
              /\ Get(failed_count, k, 0) < MaxFailedCount
              /\ Fallback(c, k, "writefail", cache)
              /\ UNCHANGED <<cache, last_failed, failed_count, retry_tasks, tasks>>
    /\ UNCHANGED <<now, ticks, last_poll, closing, not_found_seen>>

\* the cache file has been written (or the write raised)
WriteDone(c, written) ==
    LET k == calls[c].key IN
    /\ calls[c].pc = "write"
    /\ CASE written = "written" ->
              /\ cache' = [cache EXCEPT ![k] = "doc"]
              /\ Commit(record_success(Book, k))
              /\ calls' = [calls EXCEPT ![c] = Frame(k, "read_fresh", "ok")]
         [] written = "unlinked" ->
              /\ cache[k] = "none"
              /\ UNCHANGED cache
              /\ Commit(record_success(Book, k))
              /\ calls' = [calls EXCEPT ![c] = Frame(k, "read_fresh", "ok")]
         [] written = "failed" ->
              /\ Get(failed_count, k, 0) < MaxFailedCount
              /\ Commit(fetch_failed(Book, k))
              /\ Fallback(c, k, "writefail", cache)
              /\ UNCHANGED cache
    /\ UNCHANGED <<now, ticks, last_poll, closing, not_found_seen>>

\* "Load from cache after successful API call": whatever parses is returned
ReadFreshDone(c) ==
    LET k == calls[c].key IN
    /\ calls[c].pc = "read_fresh"
    /\ CASE cache[k] = "doc" ->
              calls' = [calls EXCEPT ![c] = Returned(k, "ok", "doc")]
         [] cache[k] = "notfound" ->
              calls' = [calls EXCEPT ![c] = Returned(k, "ok", "sentinel")]
         [] OTHER -> Fallback(c, k, "ok", cache)
    /\ UNCHANGED <<now, ticks, last_poll, last_failed, failed_count, retry_tasks,
                   tasks, cache, closing, not_found_seen>>

\* step 4: the old cache file has been read
ReadFallbackDone(c) ==
    LET k == calls[c].key
        net == calls[c].net IN
    /\ calls[c].pc = "read_fallback"
    /\ CASE cache[k] = "doc" ->
              /\ calls' = [calls EXCEPT ![c] = Returned(k, net, "doc")]
              /\ UNCHANGED <<last_failed, failed_count, retry_tasks, tasks>>
         [] cache[k] = "notfound" ->
              /\ Commit(record_permanent_failure(Book, k))
              /\ calls' = [calls EXCEPT ![c] = Returned(k, net, "unavailable")]
         [] OTHER ->
              /\ calls' = [calls EXCEPT ![c] = Returned(k, net, "unavailable")]
              /\ UNCHANGED <<last_failed, failed_count, retry_tasks, tasks>>
    /\ UNCHANGED <<now, ticks, last_poll, cache, closing, not_found_seen>>


(***************************************************************************)
(* _schedule_retry, the coroutine of a retry task.                         *)
(***************************************************************************)
DoneTask(k) == [key |-> k, pc |-> "done", must_cancel |-> FALSE, wake_at |-> 0]

\* the interval the retry task waits after its failed_count-th failure
retry_wait_interval(fcv) ==
    PyIndex(retry_intervals, Min(fcv - 1, Len(retry_intervals) - 1))

\* the task ends with the task table left as it is
finish_keeping_registration(m, t) ==
    [m EXCEPT !.ts = [m.ts EXCEPT ![t] = DoneTask(m.ts[t].key)]]

\* the finally clause: the registration of the key is removed, then the task ends
finish(m, t) ==
    LET k == m.ts[t].key IN
    [m EXCEPT !.rt = Del(m.rt, k), !.ts = [m.ts EXCEPT ![t] = DoneTask(k)]]

\* the top of the while loop, up to the next await: the sleep if there is
\* time left to wait, else the request
loop_head(m, t) ==
    LET k == m.ts[t].key IN
    IF k \in DOMAIN m.fc /\ m.fc[k] # -1
    THEN LET wait_time == Max(0, (Get(m.lf, k, 0) + retry_wait_interval(m.fc[k])) - now)
         IN  IF wait_time > 0
             THEN [m EXCEPT !.ts = [m.ts EXCEPT ![t].pc = "sleep",
                                                ![t].wake_at = now + wait_time]]
             ELSE [m EXCEPT !.ts = [m.ts EXCEPT ![t].pc = "net",
                                                ![t].wake_at = 0]]
    ELSE finish(m, t)

\* the first step of a task: a task cancelled before it ever ran ends
\* without entering the coroutine (no finally clause runs)
RetryRun(t) ==
    /\ t \in DOMAIN tasks
    /\ tasks[t].pc = "new"
    /\ IF tasks[t].must_cancel
       THEN /\ tasks' = [tasks EXCEPT ![t] = DoneTask(tasks[t].key)]
            /\ UNCHANGED <<last_failed, failed_count, retry_tasks>>
       ELSE Commit(loop_head(Book, t))
    /\ UNCHANGED <<now, ticks, last_poll, cache, calls, closing, not_found_seen>>

\* asyncio.sleep(wait_time) is over: the request is sent
RetryWake(t) ==
    /\ t \in DOMAIN tasks
    /\ tasks[t].pc = "sleep"
    /\ ~tasks[t].must_cancel
    /\ now >= tasks[t].wake_at
    /\ tasks' = [tasks EXCEPT ![t].pc = "net", ![t].wake_at = 0]
    /\ UNCHANGED <<now, ticks, last_poll, last_failed, failed_count, retry_tasks,
                   cache, calls, closing, not_found_seen>>

\* _fetch_metadata_direct called by the retry task: the response arrives
RetryNetRespond(t, outcome) ==
    /\ t \in DOMAIN tasks
    /\ tasks[t].pc = "net"
    /\ ~tasks[t].must_cancel
    /\ LET k == tasks[t].key IN
       CASE outcome = "notfound" ->
              /\ Commit(loop_head(record_permanent_failure(Book, k), t))
              /\ UNCHANGED cache
         [] outcome = "error" ->
              /\ Get(failed_count, k, 0) < MaxFailedCount
              /\ Commit(loop_head(fetch_failed(Book, k), t))
              /\ UNCHANGED cache
         [] outcome = "ok" ->
              /\ cache' = [cache EXCEPT ![k] = "corrupt"]
              /\ tasks' = [tasks EXCEPT ![t].pc = "write"]
              /\ UNCHANGED <<last_failed, failed_count, retry_tasks>>
    /\ UNCHANGED <<now, ticks, last_poll, calls, closing, not_found_seen>>

\* the retry task's cache file has been written (or the write raised)
RetryWriteDone(t, written) ==
    /\ t \in DOMAIN tasks
    /\ tasks[t].pc = "write"
    /\ ~tasks[t].must_cancel
    /\ LET k == tasks[t].key IN
       CASE written = "written" ->
              /\ cache' = [cache EXCEPT ![k] = "doc"]
              /\ Commit(finish(record_success(Book, k), t))
         [] written = "unlinked" ->
              /\ cache[k] = "none"
              /\ UNCHANGED cache
              /\ Commit(finish(record_success(Book, k), t))
         [] written = "failed" ->
              /\ Get(failed_count, k, 0) < MaxFailedCount
              /\ Commit(loop_head(fetch_failed(Book, k), t))
              /\ UNCHANGED cache
    /\ UNCHANGED <<now, ticks, last_poll, calls, closing, not_found_seen>>

\* CancelledError arrives at the await the task is suspended at
RetryCancelled(t) ==
    /\ t \in DOMAIN tasks
    /\ tasks[t].pc \in {"sleep", "net", "write"}
    /\ tasks[t].must_cancel
    /\ Commit(finish(Book, t))
    /\ UNCHANGED <<now, ticks, last_poll, cache, calls, closing, not_found_seen>>

(***************************************************************************)
(* The other operations of MetaClient and of its environment.              *)
(***************************************************************************)
\* a caller records a transient failure for the key
RecordFailure(k) ==
    /\ Get(failed_count, k, 0) < MaxFailedCount
    /\ k \in DOMAIN retry_tasks \/ Len(tasks) < MaxTasks
    /\ Commit(record_failure(Book, k))
    /\ UNCHANGED <<now, ticks, last_poll, cache, calls, closing, not_found_seen>>

RECURSIVE CancelAll(_, _)
CancelAll(ts, S) ==
    IF S = {} THEN ts
    ELSE LET t == CHOOSE x \in S : TRUE IN CancelAll(Cancel(ts, t), S \ {t})

Values(d) == {d[k] : k \in DOMAIN d}

\* close(): every registered task is cancelled, then awaited
CloseStart ==
    /\ closing.pc = "idle"
    /\ tasks' = CancelAll(tasks, Values(retry_tasks))
    /\ IF DOMAIN retry_tasks # {}
       THEN closing' = [pc |-> "gather", waiting |-> Values(retry_tasks)]
       ELSE closing' = [pc |-> "done", waiting |-> {}]
    /\ UNCHANGED <<now, ticks, last_poll, last_failed, failed_count, retry_tasks,
                   cache, calls, not_found_seen>>

\* close(): gather has returned, the task table is cleared
CloseFinish ==
    /\ closing.pc = "gather"
    /\ \A t \in closing.waiting : tasks[t].pc = "done"
    /\ retry_tasks' = EmptyDict
    /\ closing' = [pc |-> "done", waiting |-> {}]
    /\ UNCHANGED <<now, ticks, last_poll, last_failed, failed_count, tasks,
                   cache, calls, not_found_seen>>

\* clear_metadata_cache: the cache directory is removed and recreated empty
ClearCache ==
    /\ \E k \in Keys : cache[k] # "none"
    /\ cache' = [k \in Keys |-> "none"]
    /\ not_found_seen' = {}
    /\ UNCHANGED <<now, ticks, last_poll, last_failed, failed_count, retry_tasks,
                   tasks, calls, closing>>

\* time passes
Tick(d, limit) ==
    /\ ticks < limit
    /\ now' = now + d
    /\ ticks' = ticks + 1
    /\ UNCHANGED <<last_poll, last_failed, failed_count, retry_tasks, tasks,
                   cache, calls, closing, not_found_seen>>

(***************************************************************************)
(* The Coordinator: the values a datapoint decodes to.  A Python value is  *)
(* a record tagged with its type: None, int, float (a float32 widened to   *)
(* a double, kept as the two 16-bit halves of its 32 bits), bool, str (a   *)
(* label or a hex string) and text (a decoded string, kept as its code     *)
(* points).                                                                *)
(***************************************************************************)
NoneV == [t |-> "none"]
IntV(n) == [t |-> "int", n |-> n]
FloatV(hi, lo) == [t |-> "float", hi |-> hi, lo |-> lo]
BoolV(b) == [t |-> "bool", n |-> IF b THEN 1 ELSE 0]
StrV(s) == [t |-> "str", s |-> s]
TextV(cp) == [t |-> "text", cp |-> cp]

RECURSIVE Pow256(_)
Pow256(n) == IF n = 0 THEN 1 ELSE 256 * Pow256(n - 1)

\* the float is a NaN: the exponent is all ones and the fraction is not zero
IsNaN(v) == (v.hi \div 128) % 256 = 255 /\ (v.hi % 128 # 0 \/ v.lo # 0)

\* the float is +0.0 or -0.0
IsZero(v) == v.hi % 32768 = 0 /\ v.lo = 0

\* a == b of Python.  A NaN equals nothing, itself included; the two zeros are
\* equal; True == 1.  (An int is never compared to a float here: a datapoint
\* has one type and the cache is keyed by its start address.)
PyEq(a, b) ==
    CASE a.t = "float" /\ b.t = "float" ->
            /\ ~IsNaN(a)
            /\ ~IsNaN(b)
            /\ (a = b \/ (IsZero(a) /\ IsZero(b)))
      [] a.t \in {"int", "bool"} /\ b.t \in {"int", "bool"} -> a.n = b.n
      [] a.t = "str" /\ b.t = "str" -> a.s = b.s
      [] a.t = "text" /\ b.t = "text" -> a.cp = b.cp
      [] a.t = "none" /\ b.t = "none" -> TRUE
      [] OTHER -> FALSE

Digits == <<"0", "1", "2", "3", "4", "5", "6", "7", "8", "9",
            "a", "b", "c", "d", "e", "f">>

\* str(n) of an int
RECURSIVE IntToStr(_)
IntToStr(n) ==
    IF n < 0 THEN "-" \o IntToStr(0 - n)
    ELSE IF n < 10 THEN Digits[n + 1]
    ELSE IntToStr(n \div 10) \o Digits[(n % 10) + 1]

\* str(value): of a float only the forms no arithmetic is needed for
PyStr(v) ==
    CASE v.t = "int" -> IntToStr(v.n)
      [] v.t = "str" -> v.s
      [] v.t = "float" ->
            IF IsNaN(v) THEN "nan"
            ELSE IF v.hi = 0 /\ v.lo = 0 THEN "0.0"
            ELSE IF v.hi = 32768 /\ v.lo = 0 THEN "-0.0"
            ELSE IF v.hi = 32640 /\ v.lo = 0 THEN "inf"
            ELSE IF v.hi = 65408 /\ v.lo = 0 THEN "-inf"
            ELSE "float"
      [] OTHER -> ""

\* w.to_bytes(2, "big") of every word, joined
RECURSIVE to_bytes(_)
to_bytes(words) ==
    IF words = <<>> THEN <<>>
    ELSE <<Head(words) \div 256, Head(words) % 256>> \o to_bytes(Tail(words))

\* int.from_bytes(bytes, "big", signed=False)
RECURSIVE from_bytes(_)
from_bytes(bytes) ==
    IF bytes = <<>> THEN 0
    ELSE from_bytes(SubSeq(bytes, 1, Len(bytes) - 1)) * 256 + bytes[Len(bytes)]

\* int.from_bytes(bytes, "big", signed=True): two's complement, the first
\* byte carries the sign
from_bytes_signed(bytes) ==
    IF bytes # <<>> /\ bytes[1] >= 128
    THEN (bytes[1] - 256) * Pow256(Len(bytes) - 1) + from_bytes(Tail(bytes))
    ELSE from_bytes(bytes)

\* bytes.rjust(n, b"\x00"): the padding on the left
RECURSIVE rjust(_, _)
rjust(bytes, n) == IF Len(bytes) >= n THEN bytes ELSE rjust(<<0>> \o bytes, n)

\* bytes.ljust(n, b"\x00")
RECURSIVE ljust(_, _)
ljust(bytes, n) == IF Len(bytes) >= n THEN bytes ELSE ljust(Append(bytes, 0), n)

\* bytes.hex().upper()
RECURSIVE hex_upper(_)
hex_upper(bytes) ==
    LET upper == <<"0", "1", "2", "3", "4", "5", "6", "7", "8", "9",
                   "A", "B", "C", "D", "E", "F">>
    IN  IF bytes = <<>> THEN ""
        ELSE upper[(Head(bytes) \div 16) + 1] \o upper[(Head(bytes) % 16) + 1]
                \o hex_upper(Tail(bytes))

\* bytes.hex()
RECURSIVE hex(_)
hex(bytes) ==
    IF bytes = <<>> THEN ""
    ELSE Digits[(Head(bytes) \div 16) + 1] \o Digits[(Head(bytes) % 16) + 1]
            \o hex(Tail(bytes))

IsCont(b) == 128 <= b /\ b <= 191

\* bytes.decode("utf-8", errors="ignore"), from position i: the code points of
\* the well-formed sequences; every other byte is dropped
RECURSIVE utf8_ignore(_, _)
utf8_ignore(bytes, i) ==
    IF i > Len(bytes) THEN <<>>
    ELSE LET b == bytes[i]
             n == Len(bytes)
             b1 == IF i + 1 <= n THEN bytes[i + 1] ELSE 0
             b2 == IF i + 2 <= n THEN bytes[i + 2] ELSE 0
             b3 == IF i + 3 <= n THEN bytes[i + 3] ELSE 0
         IN  IF b < 128 THEN <<b>> \o utf8_ignore(bytes, i + 1)
             ELSE IF 194 <= b /\ b <= 223 /\ IsCont(b1)
             THEN <<(b - 192) * 64 + (b1 - 128)>> \o utf8_ignore(bytes, i + 2)
             ELSE IF /\ 224 <= b /\ b <= 239 /\ IsCont(b1) /\ IsCont(b2)
                     /\ (b = 224 => b1 >= 160)
                     /\ (b = 237 => b1 <= 159)
             THEN <<(b - 224) * 4096 + (b1 - 128) * 64 + (b2 - 128)>>
                    \o utf8_ignore(bytes, i + 3)
             ELSE IF /\ 240 <= b /\ b <= 244 /\ IsCont(b1) /\ IsCont(b2) /\ IsCont(b3)
                     /\ (b = 240 => b1 >= 144)
                     /\ (b = 244 => b1 <= 143)
             THEN <<(b - 240) * 262144 + (b1 - 128) * 4096 + (b2 - 128) * 64 + (b3 - 128)>>
                    \o utf8_ignore(bytes, i + 4)
             ELSE utf8_ignore(bytes, i + 1)

\* str.rstrip("\x00")
RECURSIVE rstrip_nul(_)
rstrip_nul(cp) ==
    IF cp # <<>> /\ cp[Len(cp)] = 0 THEN rstrip_nul(SubSeq(cp, 1, Len(cp) - 1)) ELSE cp

\* str.lower() of the type names of the catalogs
lower(s) ==
    CASE s = "UINT16" -> "uint16"
      [] s = "Float32" -> "float32"
      [] s = "Float" -> "float"
      [] s = "Bool" -> "bool"
      [] OTHER -> s

\* str.startswith, for the type names of the catalogs
startswith_str_or_char(s) == s \in {"str", "string", "char", "char[]"}

(***************************************************************************)
(* The devices, their metadata documents and the messages of the model.    *)
(***************************************************************************)
STALE_REGISTER_MAX_AGE == 10

MaxMessages == 3       \* messages that arrive
CoordMaxTicks == 1     \* clock advances while messages are handled

Devices == {"d1", "d2"}
Addresses == {1, 2}
CoordTimeSteps == {10, 11}

\* the payloads: a bare decimal integer (one of them wider than 16 bits),
\* {"value": n}, text with no number, and {"value": null}
Payloads == {[form |-> "plain", n |-> 1], [form |-> "plain", n |-> 65537],
             [form |-> "json", n |-> 32704],
             [form |-> "bad", n |-> 0], [form |-> "null", n |-> 0]}

\* the messages: the payloads 1 and {"value": 32704} on both registers of
\* device d1, the text on register 1 and the null on register 2, and one
\* message of device d2, with the wide integer
Messages ==
    {[dev |-> "d1", addr |-> a, payload |-> p] :
        a \in Addresses, p \in {q \in Payloads : q.n \in {1, 32704}}}
        \cup {[dev |-> "d1", addr |-> 1, payload |-> [form |-> "bad", n |-> 0]],
              [dev |-> "d1", addr |-> 2, payload |-> [form |-> "null", n |-> 0]],
              [dev |-> "d2", addr |-> 1, payload |-> [form |-> "plain", n |-> 65537]]}

\* the metadata key of a device: both devices are of one model
KeyOf(d) == "k1"

\* the get_metadata coroutine of the first message of a device
CallerOf(d) == IF d = "d1" THEN 1 ELSE 2

Absent == [t |-> "absent"]

\* the "datapoints" of the metadata document of key k: a float32 over
\* registers 1 and 2, and a uint16 with a label mapping on register 2
Catalog(k) ==
    << [name |-> "Flow", address |-> 1, length |-> 4, type |-> "float32",
        step |-> Absent, format |-> StrV("")],
       [name |-> "Mode", address |-> 2, length |-> 2, type |-> "uint16",
        step |-> IntV(1),
        format |-> [t |-> "map", map |-> [x \in {"0", "1"} |->
                                            IF x = "0" THEN "Off" ELSE "Daily"]]] >>

(***************************************************************************)
(* Coordinator._try_decode_dp and Coordinator.update_register, as          *)
(* functions of the Coordinator's state taken as one value.                *)
(***************************************************************************)
Coord == [kd |-> known_devices, regs |-> registers, dps |-> datapoints,
          dpc |-> dp_value_cache, ev |-> events]

\* async_dispatcher_send: a signal calls the callbacks connected to it at that
\* moment, and nothing keeps it for a callback connected later
dispatched(sent, connected) == SelectSeq(sent, LAMBDA e : e.sig \in connected)

CommitCoord(s) ==
    /\ known_devices' = s.kd
    /\ registers' = s.regs
    /\ datapoints' = s.dps
    /\ dp_value_cache' = s.dpc
    /\ events' = s.ev
    /\ received' = received \o dispatched(SubSeq(s.ev, Len(events) + 1, Len(s.ev)), callbacks)

\* value * dp.get("step", 1): [ok, v], not ok when the product raises
scaled(value, step) ==
    CASE step.t = "absent" -> [ok |-> TRUE, v |-> value]
      [] step.t = "int" /\ value.t = "int" -> [ok |-> TRUE, v |-> IntV(value.n * step.n)]
      [] step.t = "int" /\ value.t = "float" /\ step.n = 1 -> [ok |-> TRUE, v |-> value]
      [] step.t = "str" /\ value.t = "int" -> [ok |-> TRUE, v |-> StrV("")]
      [] OTHER -> [ok |-> FALSE, v |-> NoneV]

\* json.loads(dp.get("format")): a dict, another JSON value, or an exception
\* (TypeError for no format at all, JSONDecodeError for text that is no JSON)
json_loads(format) ==
    CASE format.t = "map" -> [k |-> "dict", map |-> format.map]
      [] format.t = "json" -> [k |-> "other", map |-> EmptyDict]
      [] format.t = "absent" -> [k |-> "raise", map |-> EmptyDict]
      [] OTHER -> [k |-> "raise", map |-> EmptyDict]

\* the format block with every failure of the mapping ending the decode
formatted_aborting(value, format) ==
    IF format.t = "str" /\ format.s = "" THEN value
    ELSE LET fmt == json_loads(format) IN
         IF fmt.k = "dict" /\ PyStr(value) \in DOMAIN fmt.map
         THEN StrV(fmt.map[PyStr(value)])
         ELSE NoneV

\* the format block, applied to the scaled value: the label if str(value) is a
\* key of the mapping; the value itself if it is not, if the format is no
\* mapping, or if json.loads raises (except Exception)
formatted(value, format) ==
    IF format.t = "str" /\ format.s = "" THEN value
    ELSE LET fmt == json_loads(format) IN
         CASE fmt.k = "raise" -> value
           [] fmt.k = "dict" /\ PyStr(value) \in DOMAIN fmt.map -> StrV(fmt.map[PyStr(value)])
           [] OTHER -> value

\* readable with the register after the last one required as well
readable_with_next_register(regs, start, reg_count) ==
    \A off \in 0..reg_count :
        /\ (start + off) \in DOMAIN regs
        /\ ~(now - regs[start + off].ts > STALE_REGISTER_MAX_AGE)

\* readable with a register counted as stale from the threshold on
readable_stale_at_threshold(regs, start, reg_count) ==
    \A off \in 0..(reg_count - 1) :
        /\ (start + off) \in DOMAIN regs
        /\ ~(now - regs[start + off].ts >= STALE_REGISTER_MAX_AGE)

\* the registers start .. start + reg_count - 1 are all stored and fresh
readable(regs, start, reg_count) ==
    \A off \in 0..(reg_count - 1) :
        /\ (start + off) \in DOMAIN regs
        /\ ~(now - regs[start + off].ts > STALE_REGISTER_MAX_AGE)

\* _try_decode_dp from "raw_bytes = bytearray()" on: the value of the words read
decode_words(regs, dp, start, reg_count, length_bytes) ==
    LET words == [off \in 1..reg_count |-> regs[start + off - 1].val]
        all_bytes == to_bytes(words)
        raw_bytes == SubSeq(all_bytes, 1, Min(length_bytes, Len(all_bytes)))
        dtype == lower(dp.type)
        number(value) ==
            LET sv == scaled(value, dp.step) IN
            IF sv.ok THEN formatted(sv.v, dp.format) ELSE NoneV
    IN  CASE dtype \in {"uns8", "uint8"} -> number(IntV(from_bytes(raw_bytes)))
          [] dtype \in {"uns16", "uint16"} -> number(IntV(from_bytes(raw_bytes)))
          [] dtype \in {"int16", "sig16"} -> number(IntV(from_bytes_signed(raw_bytes)))
          [] dtype \in {"uns32", "uint32"} -> number(IntV(from_bytes(ljust(raw_bytes, 4))))
          [] dtype \in {"int32", "sig32"} -> number(IntV(from_bytes_signed(ljust(raw_bytes, 4))))
          [] dtype \in {"float32", "float"} ->
                IF Len(raw_bytes) < 4 THEN NoneV
                ELSE number(FloatV(raw_bytes[1] * 256 + raw_bytes[2],
                                   raw_bytes[3] * 256 + raw_bytes[4]))
          [] dtype \in {"bool", "boolean"} -> BoolV(raw_bytes[1] % 2 = 1)
          [] startswith_str_or_char(dtype) -> TextV(rstrip_nul(utf8_ignore(raw_bytes, 1)))
          [] OTHER -> StrV(hex(raw_bytes))

\* _try_decode_dp with 0 for a datapoint whose registers cannot be read
try_decode_dp_default_zero(regs, dp, start, reg_count, length_bytes) ==
    IF ~readable(regs, start, reg_count) THEN IntV(0)
    ELSE decode_words(regs, dp, start, reg_count, length_bytes)

\* _try_decode_dp
try_decode_dp(regs, dp, start, reg_count, length_bytes) ==
    IF ~readable(regs, start, reg_count) THEN NoneV
    ELSE decode_words(regs, dp, start, reg_count, length_bytes)

\* the datapoint signal sent without the decoded value
DpUpdateWithoutValue(d, start, decoded) ==
    [sig |-> "dp_update", dev |-> d, addr |-> start, val |-> NoneV]

\* the dispatcher signals
NewDevice(d) == [sig |-> "new_device", dev |-> d]
DpUpdate(d, start, decoded) == [sig |-> "dp_update", dev |-> d, addr |-> start, val |-> decoded]

\* the loop of update_register with the signal carrying the address of the
\* register that was updated
RECURSIVE scan_datapoints_keyed_by_trigger(_, _, _, _, _)
scan_datapoints_keyed_by_trigger(s, d, address, dps, i) ==
    IF i > Len(dps) THEN s
    ELSE
    LET dp == dps[i]
        start == dp.address
        length_bytes == dp.length
        reg_needed == (length_bytes + 1) \div 2
    IN  IF start < 0 \/ length_bytes <= 0
           \/ ~(start <= address /\ address < start + reg_needed)
        THEN scan_datapoints_keyed_by_trigger(s, d, address, dps, i + 1)
        ELSE
        LET decoded == try_decode_dp(Get(s.regs, d, EmptyDict), dp, start,
                                     reg_needed, length_bytes)
            prev == Get(Get(s.dpc, d, EmptyDict), start, NoneV)
        IN  IF decoded # NoneV /\ ~PyEq(decoded, prev)
            THEN scan_datapoints_keyed_by_trigger(
                    [s EXCEPT !.dpc = Put(s.dpc, d, Put(Get(s.dpc, d, EmptyDict), start, decoded)),
                              !.ev = Append(s.ev, DpUpdate(d, address, decoded))],
                    d, address, dps, i + 1)
            ELSE scan_datapoints_keyed_by_trigger(s, d, address, dps, i + 1)

\* the loop of update_register with the number of registers rounded down
RECURSIVE scan_datapoints_rounding_down(_, _, _, _, _)
scan_datapoints_rounding_down(s, d, address, dps, i) ==
    IF i > Len(dps) THEN s
    ELSE
    LET dp == dps[i]
        start == dp.address
        length_bytes == dp.length
        reg_needed == length_bytes \div 2
    IN  IF start < 0 \/ length_bytes <= 0
           \/ ~(start <= address /\ address < start + reg_needed)
        THEN scan_datapoints_rounding_down(s, d, address, dps, i + 1)
        ELSE
        LET decoded == try_decode_dp(Get(s.regs, d, EmptyDict), dp, start,
                                     reg_needed, length_bytes)
            prev == Get(Get(s.dpc, d, EmptyDict), start, NoneV)
        IN  IF decoded # NoneV /\ ~PyEq(decoded, prev)
            THEN scan_datapoints_rounding_down(
                    [s EXCEPT !.dpc = Put(s.dpc, d, Put(Get(s.dpc, d, EmptyDict), start, decoded)),
                              !.ev = Append(s.ev, DpUpdate(d, start, decoded))],
                    d, address, dps, i + 1)
            ELSE scan_datapoints_rounding_down(s, d, address, dps, i + 1)

\* update_register, the loop over the datapoints from the i-th on
RECURSIVE scan_datapoints(_, _, _, _, _)
scan_datapoints(s, d, address, dps, i) ==
    IF i > Len(dps) THEN s
    ELSE
    LET dp == dps[i]
        start == dp.address
        length_bytes == dp.length
        reg_needed == (length_bytes + 1) \div 2
    IN  IF start < 0 \/ length_bytes <= 0
           \/ ~(start <= address /\ address < start + reg_needed)
        THEN scan_datapoints(s, d, address, dps, i + 1)
        ELSE
        LET decoded == try_decode_dp(Get(s.regs, d, EmptyDict), dp, start,
                                     reg_needed, length_bytes)
            prev == Get(Get(s.dpc, d, EmptyDict), start, NoneV)
        IN  IF decoded # NoneV /\ ~PyEq(decoded, prev)
            THEN scan_datapoints(
                    [s EXCEPT !.dpc = Put(s.dpc, d, Put(Get(s.dpc, d, EmptyDict), start, decoded)),
                              !.ev = Append(s.ev, DpUpdate(d, start, decoded))],
                    d, address, dps, i + 1)
            ELSE scan_datapoints(s, d, address, dps, i + 1)

\* update_register storing the value as it came
update_register_unmasked(s, d, address, value) ==
    LET s1 == [s EXCEPT !.regs = Put(s.regs, d,
                    Put(Get(s.regs, d, EmptyDict), address,
                        [val |-> value, ts |-> now]))]
    IN  scan_datapoints(s1, d, address, Get(s1.dps, d, <<>>), 1)

\* update_register
update_register(s, d, address, value) ==
    LET s1 == [s EXCEPT !.regs = Put(s.regs, d,
                    Put(Get(s.regs, d, EmptyDict), address,
                        [val |-> value % 65536, ts |-> now]))]
    IN  scan_datapoints(s1, d, address, Get(s1.dps, d, <<>>), 1)

\* register_datapoints
register_datapoints(s, d, dps) == [s EXCEPT !.dps = Put(s.dps, d, dps)]

\* get_datapoint_value
get_datapoint_value(d, address) == Get(Get(dp_value_cache, d, EmptyDict), address, NoneV)

\* what a block of _extract_register ends with: a value, no value, or an
\* exception that leaves the block
Parsed(n) == [k |-> "value", n |-> n, exc |-> ""]
Unparsed == [k |-> "none", n |-> 0, exc |-> ""]
Raised(exc) == [k |-> "raise", n |-> 0, exc |-> exc]

\* "Try JSON format", inside its own try: int(None) raises a TypeError, which
\* the except clause of the block does not name
parse_json(payload) ==
    LET r == CASE payload.form = "json" -> Parsed(payload.n)
               [] payload.form = "null" -> Raised("TypeError")
               [] OTHER -> Unparsed
    IN  IF r.k = "raise" /\ r.exc \in {"JSONDecodeError", "ValueError", "KeyError"}
        THEN Unparsed ELSE r

\* "Try plain numeric", inside its own try
parse_plain(payload) ==
    LET r == IF payload.form = "plain" THEN Parsed(payload.n) ELSE Raised("ValueError")
    IN  IF r.k = "raise" /\ r.exc = "ValueError" THEN Unparsed ELSE r

\* the two attempts with whatever leaves them left to propagate
parse_value_uncaught(payload) ==
    LET j == parse_json(payload) IN
    IF j.k # "none" THEN j ELSE parse_plain(payload)

\* "Parse value from payload": the two attempts inside `except Exception`
parse_value(payload) ==
    LET j == parse_json(payload)
        r == IF j.k # "none" THEN j ELSE parse_plain(payload)
    IN  IF r.k = "raise" THEN Unparsed ELSE r

\* _extract_register taking the address where it takes the value
extract_register_address_from_payload(address, payload) ==
    LET v == parse_value(payload) IN
    CASE v.k = "value" -> [ok |-> TRUE, raised |-> FALSE, address |-> v.n, value |-> v.n]
      [] v.k = "raise" -> [ok |-> FALSE, raised |-> TRUE, address |-> 0, value |-> 0]
      [] OTHER -> [ok |-> FALSE, raised |-> FALSE, address |-> 0, value |-> 0]

\* _extract_register: the address of the topic and the integer of the payload
extract_register(address, payload) ==
    LET v == parse_value(payload) IN
    CASE v.k = "value" -> [ok |-> TRUE, raised |-> FALSE, address |-> address, value |-> v.n]
      [] v.k = "raise" -> [ok |-> FALSE, raised |-> TRUE, address |-> 0, value |-> 0]
      [] OTHER -> [ok |-> FALSE, raised |-> FALSE, address |-> 0, value |-> 0]

\* how handle_message ends for a message
returned(address, payload) ==
    IF extract_register(address, payload).raised THEN "raised" ELSE "done"

(***************************************************************************)
(* Coordinator.handle_message.  The messages are handed to the event loop  *)
(* one coroutine each, and the loop starts them in the order they arrived. *)
(***************************************************************************)
\* handle_message from "Attempt to extract register value" on, looking the
\* catalog of a device without one up in the cache file first
store_register_loading_catalog(s, msg) ==
    LET s1 == IF msg.dev \notin DOMAIN s.dps /\ cache[KeyOf(msg.dev)] = "doc"
              THEN register_datapoints(s, msg.dev, Catalog(KeyOf(msg.dev)))
              ELSE s
        r == extract_register(msg.addr, msg.payload)
    IN  IF r.ok THEN update_register(s1, msg.dev, r.address, r.value) ELSE s1

\* handle_message from "Attempt to extract register value" on
store_register(s, msg) ==
    LET r == extract_register(msg.addr, msg.payload) IN
    IF r.ok THEN update_register(s, msg.dev, r.address, r.value) ELSE s

\* handle_message after get_metadata has returned, with the new device
\* announced after its register has been stored
after_metadata_announcing_last(s, msg, result) ==
    LET s1 == CASE result = "doc" -> register_datapoints(s, msg.dev, Catalog(KeyOf(msg.dev)))
                [] result = "sentinel" -> register_datapoints(s, msg.dev, <<>>)
                [] OTHER -> s
        s2 == store_register(s1, msg)
    IN  [s2 EXCEPT !.ev = Append(s2.ev, NewDevice(msg.dev))]

\* handle_message after get_metadata has returned: the catalog is registered
\* if there is one, the new device is announced, the register is stored
after_metadata(s, msg, result) ==
    LET s1 == CASE result = "doc" -> register_datapoints(s, msg.dev, Catalog(KeyOf(msg.dev)))
                [] result = "sentinel" -> register_datapoints(s, msg.dev, <<>>)
                [] OTHER -> s
        s2 == [s1 EXCEPT !.ev = Append(s1.ev, NewDevice(msg.dev))]
    IN  store_register(s2, msg)

Handler(d, a, p, pc) == [dev |-> d, addr |-> a, payload |-> p, pc |-> pc]

\* handle_message up to its first suspension
handle_message(d, a, p) ==
    LET c == CallerOf(d)
        msg == Handler(d, a, p, returned(a, p))
    IN
    /\ IF d \in known_devices
       THEN /\ CommitCoord(store_register(Coord, msg))
            /\ handlers' = Append(handlers, msg)
            /\ UNCHANGED metaVars
       ELSE /\ GetMetadataEnter(c, KeyOf(d))
            /\ IF calls'[c].pc = "done"
               THEN /\ CommitCoord(after_metadata(
                          [Coord EXCEPT !.kd = known_devices \cup {d}], msg, calls'[c].result))
                    /\ handlers' = Append(handlers, msg)
               ELSE /\ known_devices' = known_devices \cup {d}
                    /\ handlers' = Append(handlers, Handler(d, a, p, "await"))
                    /\ UNCHANGED <<registers, datapoints, dp_value_cache, events, received>>

\* a message arrives and its handler runs up to its first suspension
HandleMessage(d, a, p) ==
    /\ Len(handlers) < MaxMessages
    /\ handle_message(d, a, p)

\* the handler that awaits the get_metadata coroutine c
AwaitingHandler(c) ==
    CHOOSE h \in DOMAIN handlers : handlers[h].pc = "await" /\ CallerOf(handlers[h].dev) = c

\* get_metadata has taken a step: if it returned, its handler runs to the end
Resume(c) ==
    IF calls[c].pc # "done" /\ calls'[c].pc = "done"
    THEN LET h == AwaitingHandler(c) IN
         /\ CommitCoord(after_metadata(Coord, handlers[h], calls'[c].result))
         /\ handlers' = [handlers EXCEPT ![h].pc = returned(handlers[h].addr,
                                                            handlers[h].payload)]
    ELSE UNCHANGED coordVars


\* a function of sensor_types that has not been called
NotCalled == [t |-> "unset"]

\* SIGNAL_NEW_DEVICE and SIGNAL_DP_UPDATE
Signals == {"new_device", "dp_update"}

\* the integration set up, with no message received yet
Init ==
    /\ now = StartTime
    /\ ticks = 0
    /\ last_poll = EmptyDict
    /\ last_failed = EmptyDict
    /\ failed_count = EmptyDict
    /\ retry_tasks = EmptyDict
    /\ tasks = <<>>
    /\ cache \in [Keys -> FileContents]
    /\ calls = [c \in Callers |-> IdleCall]
    /\ closing = [pc |-> "idle", waiting |-> {}]
    /\ not_found_seen = {}
    /\ known_devices = {}
    /\ registers = EmptyDict
    /\ datapoints = EmptyDict
    /\ dp_value_cache = EmptyDict
    /\ events = <<>>
    /\ handlers = <<>>
    /\ received = <<>>
    /\ setup = "complete"
    /\ callbacks = Signals
    /\ dp_name = <<>>
    /\ sensor_number = NotCalled
    /\ base_sensor_name = NotCalled

Outcomes == {"ok", "notfound", "error"}

\* the steps of the get_metadata coroutines of the callers in C
GetMetadataStep(C) ==
    \/ \E c \in C, k \in Keys : GetMetadataEnter(c, k)
    \/ \E c \in C : ReadCacheDone(c)
    \/ \E c \in C, o \in Outcomes : NetRespond(c, o)
    \/ \E c \in C, w \in WriteResults : WriteDone(c, w)
    \/ \E c \in C : ReadFreshDone(c)
    \/ \E c \in C : ReadFallbackDone(c)

\* the steps of the retry tasks
RetryStep ==
    \/ \E t \in 1..MaxTasks : RetryRun(t)
    \/ \E t \in 1..MaxTasks : RetryWake(t)
    \/ \E t \in 1..MaxTasks, o \in Outcomes : RetryNetRespond(t, o)
    \/ \E t \in 1..MaxTasks, w \in WriteResults : RetryWriteDone(t, w)
    \/ \E t \in 1..MaxTasks : RetryCancelled(t)

(***************************************************************************)
(* SpecCalls: the MetaClient as the integration drives it.  get_metadata   *)
(* is awaited by up to NumCallers message handlers at once (devices of one *)
(* model discovered together); nothing in the integration calls            *)
(* _record_failure or close.                                               *)
(***************************************************************************)
NextCalls ==
    \/ GetMetadataStep(Callers) /\ UNCHANGED <<coordVars, setupVars, nameVars>>
    \/ ClearCache /\ UNCHANGED <<coordVars, setupVars, nameVars>>
    \/ (\E d \in TimeSteps : Tick(d, MaxTicks)) /\ UNCHANGED <<coordVars, setupVars, nameVars>>

SpecCalls == Init /\ [][NextCalls]_vars

(***************************************************************************)
(* SpecRetry: the MetaClient with every operation it offers: a client      *)
(* that also records transient failures (which starts retry tasks) and     *)
(* closes the client, next to one get_metadata caller.                     *)
(***************************************************************************)
RetryCallers == {1}

NextRetry ==
    \/ GetMetadataStep(RetryCallers) /\ UNCHANGED <<coordVars, setupVars, nameVars>>
    \/ RetryStep /\ UNCHANGED <<coordVars, setupVars, nameVars>>
    \/ (\E k \in Keys : RecordFailure(k)) /\ UNCHANGED <<coordVars, setupVars, nameVars>>
    \/ CloseStart /\ UNCHANGED <<coordVars, setupVars, nameVars>>
    \/ CloseFinish /\ UNCHANGED <<coordVars, setupVars, nameVars>>
    \/ ClearCache /\ UNCHANGED <<coordVars, setupVars, nameVars>>
    \/ (\E d \in TimeSteps : Tick(d, RetryMaxTicks)) /\ UNCHANGED <<coordVars, setupVars, nameVars>>

SpecRetry == Init /\ [][NextRetry]_vars

(***************************************************************************)
(* SpecCoord: the integration at work.  Messages of two devices of one     *)
(* model arrive; the first message of each device awaits get_metadata.     *)
(***************************************************************************)
NextCoord ==
    \/ \E m \in Messages : HandleMessage(m.dev, m.addr, m.payload) /\ UNCHANGED <<setupVars, nameVars>>
    \/ \E c \in Callers : ReadCacheDone(c) /\ Resume(c) /\ UNCHANGED <<setupVars, nameVars>>
    \/ \E c \in Callers, o \in Outcomes : NetRespond(c, o) /\ Resume(c) /\ UNCHANGED <<setupVars, nameVars>>
    \/ \E c \in Callers, w \in WriteResults : WriteDone(c, w) /\ Resume(c) /\ UNCHANGED <<setupVars, nameVars>>
    \/ \E c \in Callers : ReadFreshDone(c) /\ Resume(c) /\ UNCHANGED <<setupVars, nameVars>>
    \/ \E c \in Callers : ReadFallbackDone(c) /\ Resume(c) /\ UNCHANGED <<setupVars, nameVars>>
    \/ ClearCache /\ UNCHANGED <<coordVars, setupVars, nameVars>>
    \/ (\E d \in CoordTimeSteps : Tick(d, CoordMaxTicks)) /\ UNCHANGED <<coordVars, setupVars, nameVars>>

SpecCoord == Init /\ [][NextCoord]_vars

(***************************************************************************)
(* SpecSetup: async_setup_entry of the integration next to the broker,     *)
(* which delivers its retained messages as soon as the client subscribes.  *)
(***************************************************************************)
\* async_setup_entry has been called and awaits gw.connect()
InitSetup ==
    /\ now = StartTime
    /\ ticks = 0
    /\ last_poll = EmptyDict
    /\ last_failed = EmptyDict
    /\ failed_count = EmptyDict
    /\ retry_tasks = EmptyDict
    /\ tasks = <<>>
    /\ cache \in [Keys -> FileContents]
    /\ calls = [c \in Callers |-> IdleCall]
    /\ closing = [pc |-> "idle", waiting |-> {}]
    /\ not_found_seen = {}
    /\ known_devices = {}
    /\ registers = EmptyDict
    /\ datapoints = EmptyDict
    /\ dp_value_cache = EmptyDict
    /\ events = <<>>
    /\ handlers = <<>>
    /\ received = <<>>
    /\ setup = "connecting"
    /\ callbacks = {}
    /\ dp_name = <<>>
    /\ sensor_number = NotCalled
    /\ base_sensor_name = NotCalled

\* the messages the broker retains
RetainedMessages ==
    {[dev |-> "d1", addr |-> 1, payload |-> [form |-> "plain", n |-> 1]],
     [dev |-> "d1", addr |-> 2, payload |-> [form |-> "json", n |-> 32704]]}

\* async_setup_entry, steps 1 to 4, from the return of gw.connect() to the
\* await of async_forward_entry_setups: the MetaClient is made, the
\* Coordinator is made and started (start() subscribes and never suspends),
\* hass.data is filled
SetupEntryStart ==
    /\ setup = "connecting"
    /\ setup' = "forwarding"
    /\ UNCHANGED <<metaVars, coordVars, callbacks, nameVars>>

\* gw.connect() raises: ConfigEntryNotReady
SetupEntryNotReady ==
    /\ setup = "connecting"
    /\ setup' = "not_ready"
    /\ UNCHANGED <<metaVars, coordVars, callbacks, nameVars>>

\* Coordinator.start has subscribed
subscribed == setup \in {"forwarding", "loaded", "complete"}

\* async_setup_entry of the sensor platform, run by
\* async_forward_entry_setups: the two dispatcher callbacks are connected
SensorSetupEntry ==
    /\ setup = "forwarding"
    /\ setup' = "loaded"
    /\ callbacks' = Signals
    /\ UNCHANGED <<metaVars, coordVars, nameVars>>

\* async_setup_entry after async_forward_entry_setups has returned
SetupEntryFinish ==
    /\ setup = "loaded"
    /\ setup' = "complete"
    /\ UNCHANGED <<metaVars, coordVars, callbacks, nameVars>>

\* _on_paho_message: a message of the subscription is handed to on_msg
OnMessage(m) ==
    /\ subscribed
    /\ HandleMessage(m.dev, m.addr, m.payload)
    /\ UNCHANGED <<setupVars, nameVars>>

NextSetup ==
    \/ SetupEntryStart
    \/ SetupEntryNotReady
    \/ SensorSetupEntry
    \/ SetupEntryFinish
    \/ \E m \in RetainedMessages : OnMessage(m)
    \/ \E c \in Callers : ReadCacheDone(c) /\ Resume(c) /\ UNCHANGED <<setupVars, nameVars>>
    \/ \E c \in Callers, o \in Outcomes : NetRespond(c, o) /\ Resume(c) /\ UNCHANGED <<setupVars, nameVars>>
    \/ \E c \in Callers, w \in WriteResults : WriteDone(c, w) /\ Resume(c) /\ UNCHANGED <<setupVars, nameVars>>
    \/ \E c \in Callers : ReadFreshDone(c) /\ Resume(c) /\ UNCHANGED <<setupVars, nameVars>>
    \/ \E c \in Callers : ReadFallbackDone(c) /\ Resume(c) /\ UNCHANGED <<setupVars, nameVars>>

SpecSetup == InitSetup /\ [][NextSetup]_vars

(***************************************************************************)
(* SpecDecode: the decode engine on catalogs of integer datapoints of      *)
(* every width.  The device is known: its first message carried a payload  *)
(* with no number in it, and get_metadata returned the cached document.    *)
(***************************************************************************)
DecodeMaxMessages == 4

\* an integer datapoint with no step and no format
Dp(name, address, length, type) ==
    [name |-> name, address |-> address, length |-> length, type |-> type,
     step |-> Absent, format |-> StrV("")]

\* the "datapoints" a metadata document may carry: datapoints of 1 to 4
\* bytes, two of them sharing register 2, and in the second catalog a
\* datapoint of length 0 on register 4, which no datapoint covers
IntegerCatalogs ==
    { << Dp("U32", 1, 4, "uint32"), Dp("U16", 2, 2, "uint16"), Dp("I24", 3, 3, "int32") >>,
      << Dp("U24", 1, 3, "uint32"), Dp("U8", 2, 1, "uint8"), Dp("I16", 3, 2, "int16"),
         Dp("Z", 4, 0, "uint16") >>,
      << Dp("I8", 1, 1, "int16"), Dp("I32", 3, 4, "int32"), Dp("I16", 4, 2, "sig16") >> }

\* the formats of a datapoint: {"0": "Off", "1": "Daily"}, text that is no
\* JSON, JSON that is no object, and no "format" at all
ModeFormat == [t |-> "map", map |-> [x \in {"0", "1"} |-> IF x = "0" THEN "Off" ELSE "Daily"]]
MalformedFormat == StrV("{0: Off")
ListFormat == [t |-> "json"]

\* a catalog of uint16 datapoints that differ in their format
FormatCatalog ==
    << [Dp("Mode", 1, 2, "uint16") EXCEPT !.format = ModeFormat],
       [Dp("Malformed", 2, 2, "uint16") EXCEPT !.format = MalformedFormat],
       [Dp("List", 3, 2, "uint16") EXCEPT !.format = ListFormat],
       [Dp("NoFormat", 4, 2, "uint16") EXCEPT !.format = Absent] >>

\* a catalog of datapoints with a type the decoder does not know, with no
\* type, and of float32 datapoints of fewer than 4 bytes
TypeCatalog ==
    << Dp("Raw", 1, 2, "weird"), Dp("NoType", 2, 3, ""),
       Dp("Short", 3, 2, "float32"), Dp("Half", 4, 1, "Float") >>

\* a catalog of integer datapoints that differ in their step: none, 10, the
\* empty string and null
StepCatalog ==
    << Dp("NoStep", 1, 2, "uint16"),
       [Dp("Tenfold", 2, 2, "uint16") EXCEPT !.step = IntV(10)],
       [Dp("EmptyStep", 3, 2, "int16") EXCEPT !.step = StrV("")],
       [Dp("NullStep", 4, 2, "uint16") EXCEPT !.step = NoneV] >>

DecodeCatalogs == IntegerCatalogs \cup {FormatCatalog, TypeCatalog, StepCatalog}

\* the register values of the messages: 1, 5, 0x0102 and 0x7F80 for register 1,
\* 0xFFFE and 0x0304 for register 2, 0x8001 and 0x0102 for register 3,
\* 0xFF80 and 0x0304 for register 4; {"value": 5} for register 4, text with
\* no number for register 3 and {"value": null} for register 2
DecodeMessages ==
    {[dev |-> "d1", addr |-> 1, payload |-> [form |-> "plain", n |-> 1]],
     [dev |-> "d1", addr |-> 1, payload |-> [form |-> "plain", n |-> 5]],
     [dev |-> "d1", addr |-> 1, payload |-> [form |-> "plain", n |-> 258]],
     [dev |-> "d1", addr |-> 1, payload |-> [form |-> "plain", n |-> 32640]],
     [dev |-> "d1", addr |-> 2, payload |-> [form |-> "plain", n |-> 65534]],
     [dev |-> "d1", addr |-> 2, payload |-> [form |-> "plain", n |-> 772]],
     [dev |-> "d1", addr |-> 3, payload |-> [form |-> "plain", n |-> 32769]],
     [dev |-> "d1", addr |-> 3, payload |-> [form |-> "plain", n |-> 258]],
     [dev |-> "d1", addr |-> 4, payload |-> [form |-> "plain", n |-> 65408]],
     [dev |-> "d1", addr |-> 4, payload |-> [form |-> "plain", n |-> 772]],
     [dev |-> "d1", addr |-> 4, payload |-> [form |-> "json", n |-> 5]],
     [dev |-> "d1", addr |-> 3, payload |-> [form |-> "bad", n |-> 0]],
     [dev |-> "d1", addr |-> 2, payload |-> [form |-> "null", n |-> 0]]}

InitDecode ==
    /\ now = StartTime
    /\ ticks = 0
    /\ last_poll = EmptyDict
    /\ last_failed = EmptyDict
    /\ failed_count = EmptyDict
    /\ retry_tasks = EmptyDict
    /\ tasks = <<>>
    /\ cache = [k \in Keys |-> "doc"]
    /\ calls = [c \in Callers |-> IF c = CallerOf("d1")
                                  THEN [Frame("k1", "done", "none") EXCEPT !.result = "doc"]
                                  ELSE IdleCall]
    /\ closing = [pc |-> "idle", waiting |-> {}]
    /\ not_found_seen = {}
    /\ known_devices = {"d1"}
    /\ registers = EmptyDict
    /\ \E dps \in DecodeCatalogs : datapoints = [d \in {"d1"} |-> dps]
    /\ dp_value_cache = EmptyDict
    /\ events = <<NewDevice("d1")>>
    /\ handlers = <<Handler("d1", 1, [form |-> "bad", n |-> 0], "done")>>
    /\ received = <<NewDevice("d1")>>
    /\ setup = "complete"
    /\ callbacks = Signals
    /\ dp_name = <<>>
    /\ sensor_number = NotCalled
    /\ base_sensor_name = NotCalled

\* a message of the known device arrives
DecodeMessage(m) ==
    /\ Len(handlers) < DecodeMaxMessages
    /\ handle_message(m.dev, m.addr, m.payload)
    /\ UNCHANGED <<setupVars, nameVars>>

NextDecode ==
    \/ \E m \in DecodeMessages : DecodeMessage(m)
    \/ (\E d \in CoordTimeSteps : Tick(d, CoordMaxTicks)) /\ UNCHANGED <<coordVars, setupVars, nameVars>>

SpecDecode == InitDecode /\ [][NextDecode]_vars

(***************************************************************************)
(* sensor_types: the classification of datapoint names.  A name is the     *)
(* sequence of its characters.                                             *)
(***************************************************************************)
\* the characters 0-9, and a character that str.isdigit accepts and int()
\* rejects (SUPERSCRIPT TWO)
DecimalDigits == {"0", "1", "5"}
Superscript == "sup2"
Whitespace == {" "}

\* " Type"
TypeSuffix == <<" ", "T", "y", "p", "e">>

\* the names the metadata may carry: sensor names, type register names,
\* relay names and others, with and without blanks around and inside them
Names ==
    {pre \o head \o digits \o rest :
        pre \in {<<>>, <<" ">>},
        head \in {<<>>, <<"S">>, <<"R">>},
        digits \in {<<>>, <<"1">>, <<"1", "5">>, <<"0", "1">>, <<Superscript>>},
        rest \in {<<>>, <<" ">>, <<"x">>, TypeSuffix, <<" ">> \o TypeSuffix,
                  TypeSuffix \o <<" ">>, <<"T", "y", "p", "e">>}}

\* str.strip
RECURSIVE lstrip(_)
lstrip(s) == IF s # <<>> /\ Head(s) \in Whitespace THEN lstrip(Tail(s)) ELSE s

RECURSIVE rstrip(_)
rstrip(s) ==
    IF s # <<>> /\ s[Len(s)] \in Whitespace THEN rstrip(SubSeq(s, 1, Len(s) - 1)) ELSE s

strip(s) == rstrip(lstrip(s))

\* str.startswith, str.endswith
startswith(s, prefix) ==
    Len(s) >= Len(prefix) /\ SubSeq(s, 1, Len(prefix)) = prefix

endswith(s, suffix) ==
    Len(s) >= Len(suffix) /\ SubSeq(s, Len(s) - Len(suffix) + 1, Len(s)) = suffix

\* str.isdigit
isdigit(s) == s # <<>> /\ \A i \in DOMAIN s : s[i] \in DecimalDigits \cup {Superscript}

DigitValue(c) == CASE c = "0" -> 0 [] c = "1" -> 1 [] c = "5" -> 5

RECURSIVE DecimalValue(_)
DecimalValue(s) ==
    IF s = <<>> THEN 0 ELSE 10 * DecimalValue(SubSeq(s, 1, Len(s) - 1)) + DigitValue(s[Len(s)])

\* an exception that leaves the function
RaisedV(exc) == [t |-> "raise", exc |-> exc]

\* int(): of a string of digits that are not all decimal, a ValueError
int(s) ==
    IF \A i \in DOMAIN s : s[i] \in DecimalDigits
    THEN IntV(DecimalValue(s)) ELSE RaisedV("ValueError")

\* parse_sensor_name
parse_sensor_name(name) ==
    IF name = <<>> THEN NoneV
    ELSE LET stripped == strip(name) IN
         IF startswith(stripped, <<"S">>) /\ Len(stripped) > 1
         THEN LET number_part == Tail(stripped) IN
              IF isdigit(number_part) THEN int(number_part) ELSE NoneV
         ELSE NoneV

\* is_sensor_type_register
is_sensor_type_register(name) ==
    IF name = <<>> THEN NoneV
    ELSE LET stripped == strip(name) IN
         IF endswith(stripped, TypeSuffix) /\ startswith(stripped, <<"S">>)
         THEN LET sensor_name == SubSeq(stripped, 1, Len(stripped) - 5)
                  number == parse_sensor_name(sensor_name)
              IN  CASE number.t = "raise" -> number
                    [] number # NoneV -> StrV(sensor_name)
                    [] OTHER -> NoneV
         ELSE NoneV

\* a datapoint name of the metadata, neither function called with it yet
InitNames ==
    /\ now = StartTime
    /\ ticks = 0
    /\ last_poll = EmptyDict
    /\ last_failed = EmptyDict
    /\ failed_count = EmptyDict
    /\ retry_tasks = EmptyDict
    /\ tasks = <<>>
    /\ cache = [k \in Keys |-> "none"]
    /\ calls = [c \in Callers |-> IdleCall]
    /\ closing = [pc |-> "idle", waiting |-> {}]
    /\ not_found_seen = {}
    /\ known_devices = {}
    /\ registers = EmptyDict
    /\ datapoints = EmptyDict
    /\ dp_value_cache = EmptyDict
    /\ events = <<>>
    /\ handlers = <<>>
    /\ received = <<>>
    /\ setup = "complete"
    /\ callbacks = Signals
    /\ dp_name \in Names
    /\ sensor_number = NotCalled
    /\ base_sensor_name = NotCalled

ParseSensorName ==
    /\ sensor_number = NotCalled
    /\ sensor_number' = parse_sensor_name(dp_name)
    /\ UNCHANGED <<metaVars, coordVars, setupVars, dp_name, base_sensor_name>>

IsSensorTypeRegister ==
    /\ base_sensor_name = NotCalled
    /\ base_sensor_name' = is_sensor_type_register(dp_name)
    /\ UNCHANGED <<metaVars, coordVars, setupVars, dp_name, sensor_number>>

NextNames ==
    \/ ParseSensorName
    \/ IsSensorTypeRegister

SpecNames == InitNames /\ [][NextNames]_vars


(***************************************************************************)
(* What the claims speak of.                                               *)
(***************************************************************************)
\* the retry tasks of key k in ts that are running: started, not finished,
\* and not already cancelled
RunningTasks(ts, k) ==
    {t \in DOMAIN ts : /\ ts[t].key = k
                       /\ ts[t].pc \in {"sleep", "net", "write"}
                       /\ ~ts[t].must_cancel}

\* the retry tasks of key k in ts that have not finished
LiveTasks(ts, k) == {t \in DOMAIN ts : ts[t].key = k /\ ts[t].pc # "done"}

\* get_device_status
get_device_status(k) ==
    LET fcv == Get(failed_count, k, 0) IN
    IF fcv = -1 THEN "not_found"
    ELSE IF fcv > 0 THEN (IF k \in DOMAIN retry_tasks THEN "retry_pending" ELSE "error")
    ELSE "ok"

\* this step is get_metadata being entered by caller c
Enters(c) == calls[c].pc \in {"idle", "done"} /\ calls'[c] # calls[c]

\* this step is caller c sending the request of its network fetch
IssuesFetch(c) == calls[c].pc # "net" /\ calls'[c].pc = "net"

\* C1: every key has at most one running retry task, in every reachable state.
C1_AtMostOneRetryTaskPerKey ==
    \A k \in Keys : Cardinality(RunningTasks(tasks, k)) <= 1

\* C2: when the network fetch of get_metadata fails with a transient error for a
\* key that is not permanent, failedCount has grown by exactly 1, lastFailedAt is
\* set and exactly one retry task exists for the key; the call returns the
\* readable stale document, else "unavailable".
C2_TransientFailureStartsOneRetryTask ==
    [][\A c \in Callers :
        LET k == calls[c].key IN
        /\ (calls[c].pc = "net" /\ calls'[c].net = "error" /\ Get(failed_count, k, 0) # -1)
            => /\ Get(failed_count', k, 0) = Get(failed_count, k, 0) + 1
               /\ k \in DOMAIN last_failed'
               /\ Cardinality(LiveTasks(tasks', k)) = 1
               /\ calls'[c].pc = "done" => calls'[c].result = "unavailable"
        /\ (calls[c].pc = "read_fallback" /\ calls[c].net = "error" /\ calls'[c].pc = "done")
            => calls'[c].result = (IF cache[k] = "doc" THEN "doc" ELSE "unavailable")
      ]_vars

\* C3: the "Device not found" response leaves failedCount at -1, and every
\* get_metadata call entered after it (with no cache clear in between) returns
\* "unavailable" at once, without a network call.
C3_NotFoundThenNoNetworkCall ==
    [][\A c \in Callers :
        LET k == calls[c].key IN
        /\ (calls[c].pc = "net" /\ calls'[c].net = "notfound")
            => Get(failed_count', k, 0) = -1
        /\ (Enters(c) /\ calls'[c].key \in not_found_seen)
            => (calls'[c].pc = "done" /\ calls'[c].result = "unavailable")
      ]_vars

\* C4: once failedCount of a key is -1 it stays -1 (and get_device_status stays
\* not_found), whatever happens afterwards.
C4_PermanentFailureIsFrozen ==
    [][\A k \in Keys :
        Get(failed_count, k, 0) = -1
            => (Get(failed_count', k, 0) = -1 /\ get_device_status(k)' = "not_found")
      ]_vars

\* C5: a key whose failedCount is -1 has no registered and no running retry
\* task, and no step creates a retry task for such a key.
C5_NoRetryTaskForPermanentKey ==
    /\ [](\A k \in Keys :
            Get(failed_count, k, 0) = -1
                => (k \notin DOMAIN retry_tasks /\ RunningTasks(tasks, k) = {}))
    /\ [][\A k \in Keys :
            Get(failed_count, k, 0) = -1
                => ~(\E t \in DOMAIN tasks' : t \notin DOMAIN tasks /\ tasks'[t].key = k)
         ]_vars

\* the value of the last datapoint-changed event for (d, a) in ev, None if
\* there is none
LastEmitted(ev, d, a) ==
    LET I == {i \in DOMAIN ev : ev[i].sig = "dp_update" /\ ev[i].dev = d /\ ev[i].addr = a}
    IN  IF I = {} THEN NoneV ELSE ev[CHOOSE i \in I : \A j \in I : j <= i].val

\* C6: a datapoint-changed event is emitted only for a value that differs from
\* the value last emitted for that datapoint (the first value counts as a
\* change): two consecutive events of one datapoint never carry the same value,
\* so the same raw registers submitted twice emit at most one event.
C6_ChangeDedup ==
    [][\A i \in DOMAIN events' :
        (i > Len(events) /\ events'[i].sig = "dp_update")
            => events'[i].val #
                 LastEmitted(SubSeq(events', 1, i - 1), events'[i].dev, events'[i].addr)
      ]_vars

\* the messages of device d for register a that carry a value, by arrival
ValueMessages(d, a) ==
    {h \in DOMAIN handlers :
        /\ handlers[h].dev = d
        /\ handlers[h].addr = a
        /\ extract_register(a, handlers[h].payload).ok}

\* C7: the register updates of one device take effect in the order their
\* messages arrived: a handler stores its register only when every earlier
\* handler of its device has finished, and when all have finished the Register
\* Store holds, for every register, the value of the message that arrived last.
C7_PerDeviceOrdering ==
    /\ [][\A h \in DOMAIN handlers' :
            (/\ handlers'[h].pc = "done"
             /\ (h \notin DOMAIN handlers \/ handlers[h].pc # "done")
             /\ extract_register(handlers'[h].addr, handlers'[h].payload).ok)
                => \A g \in 1..(h - 1) :
                      handlers'[g].dev = handlers'[h].dev => handlers'[g].pc = "done"
         ]_vars
    /\ []((\A h \in DOMAIN handlers : handlers[h].pc = "done")
            => \A d \in Devices, a \in Addresses :
                  ValueMessages(d, a) # {}
                      => LET last == CHOOSE h \in ValueMessages(d, a) :
                                        \A g \in ValueMessages(d, a) : g <= h
                         IN  registers[d][a].val = handlers[last].payload.n % 65536)

\* a retry of key k is due by the backoff schedule: a failure is on record and
\* the time is past lastFailedAt plus the scheduled interval
RetryDue(k) ==
    /\ k \in DOMAIN last_failed
    /\ Get(failed_count, k, 0) # -1
    /\ now > last_failed[k] + can_retry_interval(Get(failed_count, k, 0))

\* a poll of key k is allowed: none was recorded in the last 60 seconds
PollAllowed(k) == k \notin DOMAIN last_poll \/ now - last_poll[k] > PollWindow

\* C8: get_metadata sends a request only if a poll is allowed or a retry is due,
\* and records the poll time before it does; when the gate is closed it returns
\* "unavailable" and leaves failedCount, lastFailedAt and lastPoll as they were.
C8_PollGate ==
    [][\A c \in Callers :
        LET k == calls'[c].key IN
        /\ IssuesFetch(c)
            => /\ PollAllowed(k) \/ RetryDue(k)
               /\ last_poll'[k] = now
        /\ (calls[c].pc \in {"idle", "done", "read_cache"}
              /\ calls'[c] # calls[c] /\ calls'[c].pc = "done"
              /\ Get(failed_count, k, 0) # -1 /\ cache[k] \notin {"doc", "notfound"})
            => /\ calls'[c].result = "unavailable"
               /\ UNCHANGED <<failed_count, last_failed, last_poll>>
      ]_vars

\* C9: a proactive poll (a request of get_metadata for a key with no failure on
\* record) is sent at most once per key per 60 seconds, also when the calls
\* overlap.
C9_OneProactivePollPerWindow ==
    [][\A c \in Callers :
        (IssuesFetch(c) /\ calls'[c].key \notin DOMAIN last_failed)
            => PollAllowed(calls'[c].key)
      ]_vars

\* C10: a retry task that goes to sleep sleeps until lastFailedAt plus the
\* interval that get_metadata's retry-due check uses for the same failedCount,
\* the entry of (5, 10, 30, 60) minutes at index min(failedCount, 3).
C10_OneBackoffSchedule ==
    [][\A t \in DOMAIN tasks' :
        LET k == tasks'[t].key IN
        (tasks'[t].pc = "sleep" /\ (t \notin DOMAIN tasks \/ tasks[t].pc # "sleep"))
            => /\ tasks'[t].wake_at =
                    last_failed'[k] + can_retry_interval(failed_count'[k])
               /\ can_retry_interval(failed_count'[k]) <= 3600
      ]_vars

\* this step is retry task t sending the request of a direct fetch
TaskIssuesFetch(t) ==
    /\ tasks'[t].pc = "net"
    /\ (t \notin DOMAIN tasks \/ tasks[t].pc # "net")

\* C11: while a retry task of a key is running (started, not finished, not
\* cancelled) it is the only issuer of network fetches for the key: no
\* get_metadata call and no other retry task sends a request for that key.
C11_RetryTaskIsSoleRetrier ==
    [][\A k \in Keys :
        /\ \A c \in Callers :
              (IssuesFetch(c) /\ calls'[c].key = k) => RunningTasks(tasks, k) = {}
        /\ \A t \in DOMAIN tasks' :
              (TaskIssuesFetch(t) /\ tasks'[t].key = k) => RunningTasks(tasks', k) \subseteq {t}
      ]_vars

\* this step is handler h running update_register: it runs to its end with a
\* register extracted from its message
Updates(h) ==
    /\ h \in DOMAIN handlers'
    /\ handlers'[h].pc = "done"
    /\ (h \notin DOMAIN handlers \/ handlers[h].pc = "await")
    /\ extract_register(handlers'[h].addr, handlers'[h].payload).ok

\* the registers that back datapoint dp
BackingRegisters(dp) == dp.address .. (dp.address + (dp.length + 1) \div 2 - 1)

\* the dp_update events of device d and start address a emitted in this step
EmittedNow(d, a) ==
    {i \in (Len(events) + 1)..Len(events') :
        events'[i].sig = "dp_update" /\ events'[i].dev = d /\ events'[i].addr = a}

\* get_datapoint_value on the decoded values dpc
DecodedValue(dpc, d, a) == Get(Get(dpc, d, EmptyDict), a, NoneV)

\* C12: when update_register re-evaluates a datapoint whose backing registers
\* are all stored, and one of them was observed more than 10 seconds ago, no
\* event is emitted for the datapoint and its decoded value is unchanged; when
\* all of them are at most 10 seconds old the decode yields a value.
C12_Staleness ==
    [][\A h \in DOMAIN handlers' : Updates(h) =>
        LET d == handlers'[h].dev
            a == handlers'[h].addr
            regs == Get(registers', d, EmptyDict)
            dps == Get(datapoints', d, <<>>)
        IN  \A i \in DOMAIN dps :
              LET dp == dps[i] IN
              (a \in BackingRegisters(dp) /\ BackingRegisters(dp) \subseteq DOMAIN regs) =>
                 IF \E r \in BackingRegisters(dp) : now - regs[r].ts > STALE_REGISTER_MAX_AGE
                 THEN /\ EmittedNow(d, dp.address) = {}
                      /\ DecodedValue(dp_value_cache', d, dp.address)
                            = DecodedValue(dp_value_cache, d, dp.address)
                 ELSE DecodedValue(dp_value_cache', d, dp.address) # NoneV
      ]_vars

\* C12 witness: register 1 of d1 is stored, 11 seconds later an update of
\* register 2 emits Mode but not Flow, and a new update of register 1 then
\* emits Flow
C12_StaleThenFreshened ==
    /\ Len(handlers) = 3
    /\ \A h \in DOMAIN handlers :
          /\ handlers[h].pc = "done"
          /\ handlers[h].dev = "d1"
          /\ handlers[h].payload.form = "plain"
    /\ handlers[1].addr = 1 /\ handlers[2].addr = 2 /\ handlers[3].addr = 1
    /\ Len(events) = 3
    /\ events[2].sig = "dp_update" /\ events[2].addr = 2
    /\ events[3].sig = "dp_update" /\ events[3].addr = 1
    /\ now = StartTime + 11

\* C13: when update_register re-evaluates a datapoint of which a backing
\* register has never been stored for the device, no event is emitted for the
\* datapoint and its decoded value is left as it was.
C13_MissingRegister ==
    [][\A h \in DOMAIN handlers' : Updates(h) =>
        LET d == handlers'[h].dev
            a == handlers'[h].addr
            regs == Get(registers', d, EmptyDict)
            dps == Get(datapoints', d, <<>>)
        IN  \A i \in DOMAIN dps :
              LET dp == dps[i] IN
              (a \in BackingRegisters(dp) /\ ~(BackingRegisters(dp) \subseteq DOMAIN regs)) =>
                 /\ EmittedNow(d, dp.address) = {}
                 /\ DecodedValue(dp_value_cache', d, dp.address)
                       = DecodedValue(dp_value_cache, d, dp.address)
      ]_vars

\* C13 witness: the catalog of d1 is loaded and only register 2 is stored: the
\* one-register Mode has a value, the two-register Flow has none
C13_OnlySecondRegisterStored ==
    /\ Get(datapoints, "d1", <<>>) = Catalog(KeyOf("d1"))
    /\ DOMAIN Get(registers, "d1", EmptyDict) = {2}
    /\ DecodedValue(dp_value_cache, "d1", 2) # NoneV
    /\ DecodedValue(dp_value_cache, "d1", 1) = NoneV
    /\ \E i \in DOMAIN events : events[i] = DpUpdate("d1", 2, StrV("Daily"))

\* C14: every dp_update event carries the start address of a datapoint of the
\* device's catalog that the updated register backs, and the value decoded for
\* that datapoint; one update emits at most one event per datapoint.
C14_EventsKeyedByStartAddress ==
    [][\A h \in DOMAIN handlers' : Updates(h) =>
        LET d == handlers'[h].dev
            a == handlers'[h].addr
            dps == Get(datapoints', d, <<>>)
        IN  /\ \A i \in (Len(events) + 1)..Len(events') :
                 events'[i].sig = "dp_update" =>
                    /\ events'[i].dev = d
                    /\ \E j \in DOMAIN dps : /\ dps[j].address = events'[i].addr
                                             /\ a \in BackingRegisters(dps[j])
                    /\ events'[i].val = DecodedValue(dp_value_cache', d, events'[i].addr)
            /\ \A j \in DOMAIN dps : Cardinality(EmittedNow(d, dps[j].address)) <= 1
      ]_vars

\* C14 witness: register 1 of d1 is stored, then an update of register 2, the
\* second register of Flow, emits Flow under address 1 and Mode under address 2
C14_SecondRegisterEmitsUnderStart ==
    /\ Len(handlers) = 2
    /\ handlers[1] = Handler("d1", 1, [form |-> "plain", n |-> 1], "done")
    /\ handlers[2] = Handler("d1", 2, [form |-> "plain", n |-> 1], "done")
    /\ Len(events) = 3
    /\ events[1] = NewDevice("d1")
    /\ events[2].sig = "dp_update" /\ events[2].addr = 1
    /\ events[3] = DpUpdate("d1", 2, StrV("Daily"))

\* this step is retry task t leaving its loop after a successful direct fetch
TaskSucceeds(t) ==
    /\ t \in DOMAIN tasks
    /\ tasks[t].pc = "write"
    /\ ~tasks[t].must_cancel
    /\ tasks'[t].pc = "done"

\* this step is a direct fetch of retry task t failing transiently
TaskFetchFails(t) ==
    /\ t \in DOMAIN tasks
    /\ tasks[t].pc \in {"net", "write"}
    /\ ~tasks[t].must_cancel
    /\ tasks'[t] # tasks[t]
    /\ tasks[t].key \in DOMAIN failed_count'
    /\ failed_count'[tasks[t].key] = Get(failed_count, tasks[t].key, 0) + 1

\* C15: when the direct fetch of a retry task succeeds the task ends and the
\* key is Fresh: failed_count and last_failed are cleared, the response is in
\* the cache file, no retry task is registered and get_device_status is "ok";
\* when the fetch fails transiently the task loops with the new failed_count.
C15_RetrySuccessReturnsToFresh ==
    [][\A t \in DOMAIN tasks :
        LET k == tasks[t].key IN
        /\ TaskSucceeds(t) =>
              /\ k \notin DOMAIN failed_count'
              /\ k \notin DOMAIN last_failed'
              /\ cache'[k] = "doc"
              /\ k \notin DOMAIN retry_tasks'
              /\ get_device_status(k)' = "ok"
        /\ TaskFetchFails(t) =>
              /\ tasks'[t].pc = "sleep"
              /\ tasks'[t].wake_at = last_failed'[k] + retry_wait_interval(failed_count'[k])
      ]_vars

\* C16: the task table holds no registration of a retry task that has ended:
\* a key is registered only while its task has not finished.
C16_RegisteredOnlyWhileRunning ==
    \A k \in DOMAIN retry_tasks : tasks[retry_tasks[k]].pc # "done"

\* this step is the cancellation of retry task t arriving at the await the
\* task is suspended at (its sleep, its request or its cache write)
TaskCancelledAtAwait(t) ==
    /\ t \in DOMAIN tasks
    /\ tasks[t].pc \in {"sleep", "net", "write"}
    /\ tasks[t].must_cancel
    /\ tasks'[t].pc = "done"

\* C17: the cancellation of a retry task at an await point leaves no
\* registration of the task in the task table and leaves failed_count and
\* last_failed as they were.
C17_CancellationFrame ==
    [][\A t \in DOMAIN tasks : TaskCancelledAtAwait(t) =>
          /\ \A k \in DOMAIN retry_tasks' : retry_tasks'[k] # t
          /\ failed_count' = failed_count
          /\ last_failed' = last_failed
      ]_vars

\* C17 witness: close() has cancelled the registered task of k1 and awaits it;
\* the task has ended at its await, its registration is gone and the failure
\* on record is the one that started it
C17_CancelledByClose ==
    /\ closing.pc = "gather"
    /\ closing.waiting = {1}
    /\ Len(tasks) = 1
    /\ tasks[1].pc = "done"
    /\ retry_tasks = EmptyDict
    /\ failed_count = [k \in {"k1"} |-> 1]
    /\ last_failed = [k \in {"k1"} |-> StartTime]

\* this step is close() returning
CloseReturns == closing.pc # "done" /\ closing'.pc = "done"

\* C18: when close() returns the task table is empty and no retry task is left
\* running: every task has finished or, at the least, has been cancelled and
\* only waits for the event loop to end it.
C18_CloseLeavesNoTask ==
    [][CloseReturns =>
          /\ retry_tasks' = EmptyDict
          /\ \A t \in DOMAIN tasks' : tasks'[t].pc = "done" \/ tasks'[t].must_cancel
      ]_vars

\* this step is the direct fetch of caller c's get_metadata ending in success
FetchSucceeds(c) == calls[c].pc = "write" /\ calls'[c].pc = "read_fresh"

\* this step is caller c's get_metadata returning after a successful fetch
ReturnsAfterFetch(c) ==
    /\ calls[c].pc # "done"
    /\ calls'[c].pc = "done"
    /\ calls'[c].net = "ok"

\* C19: a successful network fetch in get_metadata leaves the response in the
\* key's cache file and the key without failed_count, last_failed and retry
\* task, and the call returns the document.
C19_SuccessfulFetchPersistsAndReturns ==
    [][\A c \in Callers :
        LET k == calls[c].key IN
        /\ FetchSucceeds(c) =>
              /\ cache'[k] = "doc"
              /\ k \notin DOMAIN failed_count'
              /\ k \notin DOMAIN last_failed'
              /\ k \notin DOMAIN retry_tasks'
        /\ ReturnsAfterFetch(c) => calls'[c].result = "doc"
      ]_vars

\* this step is caller c's get_metadata finding the "Device not found"
\* sentinel in the cache file it has read in step 1
ReadsSentinel(c) ==
    /\ calls[c].pc = "read_cache"
    /\ cache[calls[c].key] = "notfound"
    /\ calls'[c] # calls[c]

\* C20: when get_metadata reads the "Device not found" sentinel from the
\* key's cache file, failed_count becomes -1, no retry task of the key is
\* left registered or running, and the call returns "unavailable" without
\* having sent a request.
C20_SentinelCacheIsPermanentFailure ==
    [][\A c \in Callers : ReadsSentinel(c) =>
        LET k == calls[c].key IN
        /\ k \in DOMAIN failed_count' /\ failed_count'[k] = -1
        /\ k \notin DOMAIN retry_tasks'
        /\ RunningTasks(tasks', k) = {}
        /\ calls'[c] = Returned(k, "none", "unavailable")
      ]_vars

\* this step is clear_metadata_cache removing the cache files
ClearsCache == cache' # cache /\ \A k \in Keys : cache'[k] = "none"

\* C21: once clear_metadata_cache has run no key is in PermanentFailure any
\* more, so that a following get_metadata may fetch again.
C21_CacheClearEndsPermanentFailure ==
    [][ClearsCache => \A k \in Keys : Get(failed_count', k, 0) # -1]_vars

\* a retry task that has not finished is registered for key k
ActiveTaskRegistered(k) ==
    k \in DOMAIN retry_tasks /\ tasks[retry_tasks[k]].pc # "done"

\* C22: get_device_status is "not_found" iff failed_count is -1,
\* "retry_pending" iff failed_count > 0 and an active retry task is registered
\* for the key, "error" iff failed_count > 0 and no retry task is registered,
\* and "ok" in every other case.
C22_StatusFollowsBookkeeping ==
    \A k \in Keys :
        LET fcv == Get(failed_count, k, 0)
            status == get_device_status(k)
        IN  /\ status = "not_found" <=> fcv = -1
            /\ status = "retry_pending" <=> (fcv > 0 /\ ActiveTaskRegistered(k))
            /\ status = "error" <=> (fcv > 0 /\ k \notin DOMAIN retry_tasks)
            /\ status = "ok" <=> fcv = 0

\* this step is caller c's get_metadata failing to parse the cache file it
\* has read in step 1 (the file is empty or truncated, or has been removed)
ReadsUnparseable(c) ==
    /\ calls[c].pc = "read_cache"
    /\ cache[calls[c].key] \in {"corrupt", "none"}
    /\ calls'[c] # calls[c]

\* C23: a cache file that cannot be parsed is a cache miss: failed_count and
\* last_failed stay as they are and get_metadata goes on to the poll gate, which
\* returns "unavailable" or records the poll and sends the request, as it does
\* when there is no cache file.
C23_CorruptCacheIsMiss ==
    [][\A c \in Callers : ReadsUnparseable(c) =>
        LET k == calls[c].key IN
        /\ failed_count' = failed_count
        /\ last_failed' = last_failed
        /\ retry_tasks' = retry_tasks
        /\ IF ~can_poll(k) /\ ~can_retry(k)
           THEN calls'[c] = Returned(k, "none", "unavailable") /\ last_poll' = last_poll
           ELSE calls'[c] = Frame(k, "net", "none") /\ last_poll' = Put(last_poll, k, now)
      ]_vars

\* C23 witness: the first call for k1 found a truncated cache file and has
\* sent its request, with no failure on record
C23_CorruptThenFetch ==
    /\ calls[1] = Frame("k1", "net", "none")
    /\ calls[2] = IdleCall
    /\ cache["k1"] = "corrupt"
    /\ failed_count = EmptyDict
    /\ last_failed = EmptyDict
    /\ last_poll = [k \in {"k1"} |-> now]

C25_SingleRegisterDecodesAtOnce ==
    [][\A h \in DOMAIN handlers' : Updates(h) =>
        LET d == handlers'[h].dev
            a == handlers'[h].addr
            dps == Get(datapoints', d, <<>>)
        IN  \A i \in DOMAIN dps :
              (dps[i].address = a /\ dps[i].length <= 2) =>
                 /\ DecodedValue(dp_value_cache', d, a) # NoneV
                 /\ DecodedValue(dp_value_cache', d, a) =
                      try_decode_dp([r \in {a} |-> registers'[d][a]], dps[i], a, 1, dps[i].length)
      ]_vars

\* C25 witness: register 1 of d1 was stored 11 seconds before register 2:
\* the one-register Mode on register 2 has its value, the two-register Flow on
\* registers 1 and 2 has none
C25_DecodedBesideStaleNeighbour ==
    /\ Get(datapoints, "d1", <<>>) = Catalog(KeyOf("d1"))
    /\ DOMAIN Get(registers, "d1", EmptyDict) = {1, 2}
    /\ registers["d1"][1].ts = StartTime
    /\ registers["d1"][2].ts = StartTime + 11
    /\ DecodedValue(dp_value_cache, "d1", 2) = IntV(32704)
    /\ DecodedValue(dp_value_cache, "d1", 1) = NoneV

\* C26: update_register stores value & 0xFFFF with the current time under the
\* address, whatever was there; no stored register is ever removed and every
\* other register keeps its entry; the registers and decoded values of the
\* other devices are untouched and every event of the update is the device's.
C26_RegisterStore ==
    [][/\ \A e \in DOMAIN registers :
             /\ e \in DOMAIN registers'
             /\ DOMAIN registers[e] \subseteq DOMAIN registers'[e]
       /\ \A h \in DOMAIN handlers' : Updates(h) =>
             LET d == handlers'[h].dev
                 a == handlers'[h].addr
                 r == extract_register(a, handlers'[h].payload)
             IN  /\ registers'[d][a] = [val |-> r.value % 65536, ts |-> now]
                 /\ registers'[d][a].val \in 0..65535
                 /\ \A b \in DOMAIN Get(registers, d, EmptyDict) \ {a} :
                       registers'[d][b] = registers[d][b]
                 /\ \A e \in Devices \ {d} :
                       /\ Get(registers', e, EmptyDict) = Get(registers, e, EmptyDict)
                       /\ Get(dp_value_cache', e, EmptyDict) = Get(dp_value_cache, e, EmptyDict)
                 /\ \A i \in (Len(events) + 1)..Len(events') : events'[i].dev = d
      ]_vars

\* C26 witness: registers of d1 are stored, then the message 65537 of d2 is
\* stored as 1, and a later message overwrites register 1 of d1
C26_MaskedAndOverwritten ==
    /\ Len(handlers) = 3
    /\ \A h \in DOMAIN handlers : handlers[h].pc = "done"
    /\ handlers[1] = Handler("d1", 1, [form |-> "plain", n |-> 1], "done")
    /\ handlers[2].dev = "d2"
    /\ handlers[3] = Handler("d1", 1, [form |-> "json", n |-> 32704], "done")
    /\ registers["d2"][1].val = 1
    /\ registers["d1"][1] = [val |-> 32704, ts |-> StartTime + 10]

\* C27: the entity platforms connect their dispatcher callbacks before the
\* coordinator subscribes, so every new-device and datapoint-changed signal
\* the coordinator sends, those of retained messages included, is received by
\* a connected callback.
C27_EverySignalReceived == received = events

\* name is "S" followed by decimal digits and nothing else
IsSensorName(name) ==
    /\ Len(name) > 1
    /\ name[1] = "S"
    /\ \A i \in 2..Len(name) : name[i] \in DecimalDigits

\* name is a sensor name followed by " Type"
IsTypeRegisterName(name) ==
    /\ Len(name) > Len(TypeSuffix)
    /\ SubSeq(name, Len(name) - Len(TypeSuffix) + 1, Len(name)) = TypeSuffix
    /\ IsSensorName(SubSeq(name, 1, Len(name) - Len(TypeSuffix)))

\* C28: parse_sensor_name(name) is n exactly when name is "S" followed only by
\* the decimal digits of n, and None otherwise; is_sensor_type_register(name)
\* is the base name "S<n>" exactly when name is "S<digits> Type", and None
\* otherwise; no name is accepted by both.
C28_SensorNameClassification ==
    /\ sensor_number # NotCalled =>
          sensor_number = (IF IsSensorName(dp_name)
                           THEN IntV(DecimalValue(Tail(dp_name))) ELSE NoneV)
    /\ base_sensor_name # NotCalled =>
          base_sensor_name = (IF IsTypeRegisterName(dp_name)
                              THEN StrV(SubSeq(dp_name, 1, Len(dp_name) - Len(TypeSuffix)))
                              ELSE NoneV)
    /\ ~(sensor_number.t = "int" /\ base_sensor_name.t = "str")

\* address a lies in the range of datapoint dp:
\* dp.address <= a < dp.address + ceil(dp.length / 2)
Covers(dp, a) == dp.address <= a /\ 2 * (a - dp.address) < dp.length

\* C29: on update_register(device, address, v) a datapoint of the catalog is
\* re-evaluated exactly when its range covers the address: every covering
\* datapoint, overlapping ones included, takes the value decoded from the
\* registers as they are now (and emits it if it changed), every other
\* datapoint keeps its decoded value and emits nothing, and an update covered by
\* no datapoint emits no event and changes no decoded value.
C29_RangeMatching ==
    [][\A h \in DOMAIN handlers' : Updates(h) =>
        LET d == handlers'[h].dev
            a == handlers'[h].addr
            dps == Get(datapoints', d, <<>>)
            regs == Get(registers', d, EmptyDict)
        IN  /\ \A i \in DOMAIN dps :
                 LET dp == dps[i]
                     old == DecodedValue(dp_value_cache, d, dp.address)
                     new == DecodedValue(dp_value_cache', d, dp.address)
                     decoded == try_decode_dp(regs, dp, dp.address,
                                              (dp.length + 1) \div 2, dp.length)
                 IN  IF Covers(dp, a)
                     THEN /\ new = (IF decoded = NoneV THEN old ELSE decoded)
                          /\ EmittedNow(d, dp.address) # {}
                                <=> (decoded # NoneV /\ ~PyEq(decoded, old))
                     ELSE /\ new = old
                          /\ EmittedNow(d, dp.address) = {}
            /\ (\A i \in DOMAIN dps : ~Covers(dps[i], a)) =>
                  /\ events' = events
                  /\ dp_value_cache' = dp_value_cache
      ]_vars

\* C29 witness: register 4, which no datapoint of the catalog covers, is
\* stored without an event; then register 1 and register 2, which the
\* three-byte U24 and the one-byte U8 share: both are emitted by that update
C29_UncoveredThenOverlapping ==
    /\ Len(handlers) = 4
    /\ handlers[2].addr = 4 /\ handlers[3].addr = 1 /\ handlers[4].addr = 2
    /\ datapoints["d1"][1] = Dp("U24", 1, 3, "uint32")
    /\ DOMAIN registers["d1"] = {1, 2, 4}
    /\ Len(events) = 3
    /\ events[2].sig = "dp_update" /\ events[2].addr = 1
    /\ events[3].sig = "dp_update" /\ events[3].addr = 2

\* the first dp.length bytes of the registers that back dp, each register
\* giving its high byte and then its low byte
RegisterBytes(regs, dp) ==
    [k \in 1..dp.length |->
        LET val == regs[dp.address + (k - 1) \div 2].val IN
        IF k % 2 = 1 THEN val \div 256 ELSE val % 256]

\* the first k bytes of b read as one big-endian number
RECURSIVE BigEndian(_, _)
BigEndian(b, k) == IF k = 0 THEN 0 ELSE BigEndian(b, k - 1) * 256 + b[k]

\* the bytes read as a two's-complement big-endian number
TwosComplement(b) ==
    BigEndian([b EXCEPT ![1] = IF @ >= 128 THEN @ - 256 ELSE @], Len(b))

\* the bytes followed by zero bytes up to four
PaddedRight(b) == [k \in 1..4 |-> IF k <= Len(b) THEN b[k] ELSE 0]

\* the integer the bytes stand for under the type of the datapoint
IntegerOf(type, b) ==
    CASE type \in {"uint8", "uint16"} -> BigEndian(b, Len(b))
      [] type \in {"int16", "sig16"} -> TwosComplement(b)
      [] type = "uint32" -> BigEndian(PaddedRight(b), 4)
      [] type = "int32" -> TwosComplement(PaddedRight(b))

\* C30: the decoded value of an integer datapoint is the integer of the first
\* lengthBytes bytes of its registers taken high byte first in ascending
\* address order (a 1-byte datapoint takes the high byte of its register):
\* unsigned for uint8/uint16, two's complement for int16, and for
\* uint32/int32 unsigned/two's complement of the bytes padded on the right
\* with zero bytes to 4 bytes.  (Of a datapoint with no step and no format,
\* which would change the integer after the decode.)
C30_IntegerDecode ==
    [][\A h \in DOMAIN handlers' : Updates(h) =>
        LET d == handlers'[h].dev
            a == handlers'[h].addr
            dps == Get(datapoints', d, <<>>)
            regs == Get(registers', d, EmptyDict)
        IN  \A i \in DOMAIN dps :
              LET dp == dps[i] IN
              (/\ dp.length > 0
               /\ a \in BackingRegisters(dp)
               /\ BackingRegisters(dp) \subseteq DOMAIN regs
               /\ \A r \in BackingRegisters(dp) : now - regs[r].ts <= STALE_REGISTER_MAX_AGE
               /\ dp.type \in {"uint8", "uint16", "int16", "sig16", "uint32", "int32"}
               /\ dp.step = Absent
               /\ dp.format = StrV(""))
                 => DecodedValue(dp_value_cache', d, dp.address)
                        = IntV(IntegerOf(dp.type, RegisterBytes(regs, dp)))
      ]_vars

\* C30 witness: registers 1, 2, 3 hold 0x0102, 0xFFFE, 0x8001: the three-byte
\* uint32 on registers 1 and 2 is 0x0102FF00, the one-byte uint8 on register 2
\* is 0xFF, the int16 on register 3 is -32767
C30_ThreeByteFieldAndHighByte ==
    /\ Len(handlers) = 4
    /\ \A r \in {1, 2, 3} : r \in DOMAIN Get(registers, "d1", EmptyDict)
    /\ registers["d1"][1].val = 258
    /\ registers["d1"][2].val = 65534
    /\ registers["d1"][3].val = 32769
    /\ DecodedValue(dp_value_cache, "d1", 1) = IntV(16973568)
    /\ DecodedValue(dp_value_cache, "d1", 2) = IntV(255)
    /\ DecodedValue(dp_value_cache, "d1", 3) = IntV(-32767)

\* the backing registers of dp are all stored and at most 10 seconds old
FreshlyBacked(regs, dp) ==
    /\ dp.length > 0
    /\ BackingRegisters(dp) \subseteq DOMAIN regs
    /\ \A r \in BackingRegisters(dp) : now - regs[r].ts <= STALE_REGISTER_MAX_AGE

IntegerTypes == {"uint8", "uint16", "int16", "sig16", "uint32", "int32"}

\* C31: the format mapping never aborts a decode: for an integer datapoint
\* with a non-empty format, the decoded value is the label when the string of
\* the value is a key of the mapping (1 gives "Daily"), and the raw number when
\* the key is absent (5), the format is no JSON, or it is no mapping; either
\* is emitted when it differs from the value decoded before.
C31_FormatNeverAborts ==
    [][\A h \in DOMAIN handlers' : Updates(h) =>
        LET d == handlers'[h].dev
            a == handlers'[h].addr
            dps == Get(datapoints', d, <<>>)
            regs == Get(registers', d, EmptyDict)
        IN  \A i \in DOMAIN dps :
              LET dp == dps[i]
                  raw == IntegerOf(dp.type, RegisterBytes(regs, dp))
                  old == DecodedValue(dp_value_cache, d, dp.address)
                  new == DecodedValue(dp_value_cache', d, dp.address)
                  expected == IF dp.format.t = "map" /\ IntToStr(raw) \in DOMAIN dp.format.map
                              THEN StrV(dp.format.map[IntToStr(raw)])
                              ELSE IntV(raw)
              IN  (/\ a \in BackingRegisters(dp)
                   /\ FreshlyBacked(regs, dp)
                   /\ dp.type \in IntegerTypes
                   /\ dp.step = Absent
                   /\ dp.format # StrV(""))
                     => /\ new = expected
                        /\ EmittedNow(d, dp.address) # {} <=> new # old
      ]_vars

\* C31 witness: with the mapping {"0": "Off", "1": "Daily"} register 1 went
\* from 5, decoded as 5, to 1, decoded as "Daily"; the datapoint whose format
\* is no JSON has its number
C31_LabelAfterRawValue ==
    /\ datapoints["d1"] = FormatCatalog
    /\ Len(events) = 4
    /\ events[2] = DpUpdate("d1", 1, IntV(5))
    /\ events[3] = DpUpdate("d1", 2, IntV(772))
    /\ events[4] = DpUpdate("d1", 1, StrV("Daily"))

\* the data types _try_decode_dp has a branch for, in lower case
RecognizedTypes ==
    {"uns8", "uint8", "uns16", "uint16", "int16", "sig16", "uns32", "uint32",
     "int32", "sig32", "float32", "float", "bool", "boolean",
     "str", "string", "char", "char[]"}

\* the two lowercase hexadecimal digits of every byte, in order
RECURSIVE LowerHex(_, _)
LowerHex(b, k) ==
    LET nibble(n) == CASE n < 10 -> IntToStr(n)
                       [] n = 10 -> "a" [] n = 11 -> "b" [] n = 12 -> "c"
                       [] n = 13 -> "d" [] n = 14 -> "e" [] n = 15 -> "f"
    IN  IF k > Len(b) THEN ""
        ELSE nibble(b[k] \div 16) \o nibble(b[k] % 16) \o LowerHex(b, k + 1)

\* C32: a datapoint whose type is unrecognized or missing is not dropped: when
\* its registers are all stored and fresh its decoded value is the lowercase
\* hex text of its first lengthBytes bytes, emitted when it differs from the
\* value decoded before; a float32 datapoint of fewer than 4 bytes has no
\* decoded value and emits no event.
C32_UnknownTypeIsHex ==
    [][\A h \in DOMAIN handlers' : Updates(h) =>
        LET d == handlers'[h].dev
            a == handlers'[h].addr
            dps == Get(datapoints', d, <<>>)
            regs == Get(registers', d, EmptyDict)
        IN  \A i \in DOMAIN dps :
              LET dp == dps[i]
                  old == DecodedValue(dp_value_cache, d, dp.address)
                  new == DecodedValue(dp_value_cache', d, dp.address)
              IN  (a \in BackingRegisters(dp) /\ FreshlyBacked(regs, dp)) =>
                    /\ lower(dp.type) \notin RecognizedTypes =>
                          /\ new = StrV(LowerHex(RegisterBytes(regs, dp), 1))
                          /\ EmittedNow(d, dp.address) # {} <=> new # old
                    /\ (lower(dp.type) \in {"float32", "float"} /\ dp.length < 4) =>
                          /\ new = NoneV
                          /\ EmittedNow(d, dp.address) = {}
      ]_vars

\* C32 witness: registers 1 to 3 are stored; the datapoint of unknown type on
\* register 1 is "7f80", the three-byte datapoint with no type on registers 2
\* and 3 is "fffe80", and the two-byte float32 datapoint on register 3 has no
\* value
C32_HexBesideShortFloat ==
    /\ datapoints["d1"] = TypeCatalog
    /\ DOMAIN Get(registers, "d1", EmptyDict) = {1, 2, 3}
    /\ DecodedValue(dp_value_cache, "d1", 1) = StrV("7f80")
    /\ DecodedValue(dp_value_cache, "d1", 2) = StrV("fffe80")
    /\ DecodedValue(dp_value_cache, "d1", 3) = NoneV
    /\ Len(events) = 3

\* C33: the decoded integer is multiplied by the step of the datapoint, and a
\* step that is absent or empty counts as 1: the decoded value of an integer
\* datapoint is the integer times the step, the integer itself when the step is
\* absent or empty, and it is emitted when it differs from the value decoded
\* before.
C33_ScaleStep ==
    [][\A h \in DOMAIN handlers' : Updates(h) =>
        LET d == handlers'[h].dev
            a == handlers'[h].addr
            dps == Get(datapoints', d, <<>>)
            regs == Get(registers', d, EmptyDict)
        IN  \A i \in DOMAIN dps :
              LET dp == dps[i]
                  raw == IntegerOf(dp.type, RegisterBytes(regs, dp))
                  factor == IF dp.step.t = "int" THEN dp.step.n ELSE 1
                  old == DecodedValue(dp_value_cache, d, dp.address)
                  new == DecodedValue(dp_value_cache', d, dp.address)
              IN  (/\ a \in BackingRegisters(dp)
                   /\ FreshlyBacked(regs, dp)
                   /\ dp.type \in IntegerTypes
                   /\ (dp.step.t = "int" \/ dp.step = Absent \/ dp.step = StrV(""))
                   /\ dp.format = StrV(""))
                     => /\ new = IntV(raw * factor)
                        /\ EmittedNow(d, dp.address) # {} <=> new # old
      ]_vars

\* this step is handler h running to its end
Finishes(h) ==
    /\ h \in DOMAIN handlers'
    /\ handlers'[h].pc \in {"done", "raised"}
    /\ (h \notin DOMAIN handlers \/ handlers[h].pc = "await")

MessageAddresses == 1..4

\* C35: in every state the decoded value kept for (device, start address) is
\* the value of the last datapoint-changed event sent for (device, start
\* address), there is none exactly when no such event was sent, and
\* get_datapoint_value returns it.
C35_CacheIsLastEvent ==
    /\ \A d \in Devices, a \in MessageAddresses :
          /\ get_datapoint_value(d, a) = LastEmitted(events, d, a)
          /\ a \in DOMAIN Get(dp_value_cache, d, EmptyDict)
                <=> \E i \in DOMAIN events :
                       events[i].sig = "dp_update" /\ events[i].dev = d /\ events[i].addr = a
    /\ \A e \in DOMAIN dp_value_cache :
          e \in Devices /\ DOMAIN dp_value_cache[e] \subseteq MessageAddresses

\* C35 witness: the uint16 on register 2 was sent as 65534 and then as 772,
\* which is its decoded value now; the datapoint on register 3 was never sent
C35_SecondEventIsCached ==
    /\ Len(events) = 3
    /\ events[2] = DpUpdate("d1", 2, IntV(65534))
    /\ events[3] = DpUpdate("d1", 2, IntV(772))
    /\ get_datapoint_value("d1", 2) = IntV(772)
    /\ get_datapoint_value("d1", 3) = NoneV

\* the new-device events of device d sent so far
NewDeviceEvents(d) == {i \in DOMAIN events : events[i] = NewDevice(d)}

\* the handle_message coroutine of the first message of d is still waiting
\* for get_metadata
Discovering(d) == \E h \in DOMAIN handlers : handlers[h].dev = d /\ handlers[h].pc = "await"

\* C36: whatever the order and interleaving of the messages, the new-device
\* event of a device is sent exactly once (when the handler of its first
\* message has got its metadata answer, never before and never again),
\* get_metadata is called for a device only by its first message, and no
\* datapoint-changed event of a device precedes its new-device event.
C36_DiscoveryOrdering ==
    /\ [](\A d \in Devices :
            /\ Cardinality(NewDeviceEvents(d))
                  = (IF d \in known_devices /\ ~Discovering(d) THEN 1 ELSE 0)
            /\ \A i \in DOMAIN events :
                  (events[i].sig = "dp_update" /\ events[i].dev = d)
                     => \E j \in 1..(i - 1) : events[j] = NewDevice(d))
    /\ [][/\ known_devices \subseteq known_devices'
          /\ Len(handlers') > Len(handlers) =>
                LET d == handlers'[Len(handlers')].dev IN
                IF d \in known_devices
                THEN calls' = calls
                ELSE calls[CallerOf(d)] = IdleCall /\ calls'[CallerOf(d)] # IdleCall
         ]_vars

\* C36 witness: a second message of d1 arrived while the first was waiting for
\* get_metadata and stored its register first; both devices were announced
\* once, d1 before its datapoint event
C36_SecondMessageOvertakes ==
    /\ Len(handlers) = 3
    /\ \A h \in DOMAIN handlers : handlers[h].pc = "done"
    /\ handlers[1].dev = "d1" /\ handlers[1].addr = 1
    /\ handlers[2].dev = "d1" /\ handlers[2].addr = 2
    /\ handlers[3].dev = "d2"
    /\ {1, 2} \subseteq DOMAIN Get(registers, "d1", EmptyDict)
    /\ registers["d1"][2].ts < registers["d1"][1].ts
    /\ Cardinality(NewDeviceEvents("d1")) = 1
    /\ Cardinality(NewDeviceEvents("d2")) = 1
    /\ \E i \in DOMAIN events : events[i].sig = "dp_update" /\ events[i].dev = "d1"

\* the first message of device d is handled to its end in this step
FirstMessageHandled(d) ==
    \E h \in DOMAIN handlers' :
        /\ Finishes(h)
        /\ handlers'[h].dev = d
        /\ IF h \in DOMAIN handlers THEN handlers[h].pc = "await" ELSE d \notin known_devices

\* get_metadata answered the first message of device d with no metadata
AnsweredUnavailable(d) ==
    /\ d \in known_devices
    /\ ~Discovering(d)
    /\ calls[CallerOf(d)].result = "unavailable"

\* C37: the catalog of a device changes only in the step that handles the
\* first message of the device to its end; a device whose first message
\* get_metadata answered with no metadata has no datapoint in its catalog and
\* no datapoint event, whatever the cache file of its model holds afterwards.
C37_CatalogOnlyAtFirstMessage ==
    /\ [](\A d \in Devices :
            AnsweredUnavailable(d) =>
                /\ Get(datapoints, d, <<>>) = <<>>
                /\ \A i \in DOMAIN events :
                       ~(events[i].sig = "dp_update" /\ events[i].dev = d))
    /\ [][\A e \in Devices :
            Get(datapoints', e, <<>>) # Get(datapoints, e, <<>>) => FirstMessageHandled(e)]_vars

\* C37 witness: device d1 got no metadata, device d2 of the same model got
\* the document, which is in the cache file, and a later message of d1 has
\* been stored in its registers.
C37_CachedLaterForOtherDevice ==
    /\ AnsweredUnavailable("d1")
    /\ cache["k1"] = "doc"
    /\ Get(datapoints, "d2", <<>>) # <<>>
    /\ \E h \in DOMAIN handlers :
          /\ handlers[h].dev = "d1"
          /\ handlers[h].pc = "done"
          /\ \E g \in 1..(h - 1) : handlers[g].dev = "d1"
          /\ handlers[h].addr \in DOMAIN Get(registers, "d1", EmptyDict)
    /\ Get(datapoints, "d1", <<>>) = <<>>

\* retry task t ends in this step
TaskEnds(t) == tasks[t].pc # "done" /\ tasks'[t].pc = "done"

\* C38: a retry task that ends removes from the task table only its own
\* registration: the registration of any other task is still there after the
\* step, also when the task that ends was cancelled and deregistered by a
\* success and a new task of its key has been registered since.
C38_CleanupRemovesOwnRegistration ==
    [][\A t \in DOMAIN tasks :
        TaskEnds(t) =>
            \A k \in DOMAIN retry_tasks :
                retry_tasks[k] # t =>
                    k \in DOMAIN retry_tasks' /\ retry_tasks'[k] = retry_tasks[k]]_vars

\* this step is get_metadata of caller c opening the cache file it found
OpensCacheFile(c) == calls[c].pc \in {"idle", "done"} /\ calls'[c].pc = "read_cache"

\* this step is get_metadata of caller c returning the document it read from
\* the cache file in step 1
ServedFromCache(c) ==
    calls[c].pc = "read_cache" /\ calls'[c].pc = "done" /\ calls'[c].result = "doc"

\* C39: the steps of a get_metadata call that is served from a readable cache
\* file send no request and leave lastPoll, failedCount, lastFailedAt, the
\* retry task table and the retry tasks as they are (so the status of the key
\* is what it was before the call).
C39_CacheHitLeavesRetryState ==
    [][\A c \in Callers :
        (OpensCacheFile(c) \/ ServedFromCache(c)) =>
            /\ ~IssuesFetch(c)
            /\ calls'[c].net = "none"
            /\ UNCHANGED <<last_poll, failed_count, last_failed, retry_tasks, tasks>>]_vars

\* C39 witness: a call has been served the document from the cache file and
\* the status of its key is retry_pending: a failure is on record and a retry
\* task is registered.
C39_ServedWhileRetryPending ==
    /\ calls[1] = Returned("k1", "none", "doc")
    /\ cache["k1"] = "doc"
    /\ get_device_status("k1") = "retry_pending"
    /\ Get(failed_count, "k1", 0) > 0
    /\ "k1" \in DOMAIN last_failed

\* this step is the write of the fetched document of caller c raising
WriteFails(c) == calls[c].pc = "write" /\ calls'[c].net = "writefail"

\* this step is caller c's get_metadata returning after its write has raised
ReturnsAfterFailedWrite(c) ==
    /\ calls[c].pc # "done"
    /\ calls'[c].pc = "done"
    /\ calls'[c].net = "writefail"

\* this step clears the retry state of key k
ClearsRetryState(k) ==
    /\ k \in DOMAIN failed_count \/ k \in DOMAIN last_failed
    /\ k \notin DOMAIN failed_count'
    /\ k \notin DOMAIN last_failed'

\* this step is a write of the document to the cache file of key k completing
WriteCompletes(k) ==
    \/ \E c \in Callers : calls[c].key = k /\ FetchSucceeds(c)
    \/ \E t \in DOMAIN tasks : tasks[t].key = k /\ TaskSucceeds(t)

====
